---- MODULE Spec2Model ----
(***************************************************************************)
(* GameHub: the relational schema of srcs/mariadb/conf/init.sql (tables,   *)
(* keys, cascading foreign keys, the validate_review_rating trigger) and   *)
(* the handlers of the single-page client srcs/frontend/src/App.js that    *)
(* read and write it through the REST layer.                               *)
(*                                                                         *)
(* A table is the set of its rows, a row a record of its columns.  A       *)
(* statement that violates a constraint is rolled back: it leaves every    *)
(* table as it was and only the response differs.                          *)
(***************************************************************************)
EXTENDS Integers, FiniteSets, Sequences, TLC

VARIABLES
    USER, GAME, GAME_GENRE, GAME_PLATFORM, ACHIEVEMENT,
    USER_GAMES, USER_ACHIEVEMENTS, REVIEW, PLAY_SESSION, FRIENDS,
    nextId,          \* number of generated row ids (review_id, friendship_id) handed out
    nextSessionId,   \* PLAY_SESSION.session_id AUTO_INCREMENT counter
    now,             \* CURRENT_TIMESTAMP
    resp,            \* the response of the last statement / request
    user,            \* AuthProvider: the logged-in user's id, NULL when logged out
    collection,      \* GameHub: the collection as last loaded
    loadsPending,    \* GET /collection/ requests sent and not yet served
    loadsInFlight,   \* GET /collection/ responses not yet delivered
    editSave,        \* CollectionEditModal: the save in progress
    reviews,         \* GameReviews: the other users' reviews as last loaded
    myReview,        \* GameReviews: the user's own review as last loaded, NoReview when none
    reviewsLoading,  \* GameReviews: loading
    reviewLoads,     \* GET /reviews/games/{gameId}/ requests not yet answered
    showWriteReview, \* GameReviews: the WriteReview form is shown
    editingReview,   \* GameReviews: the review being edited, NoReview when none
    saveReply,       \* WriteReview: the answer to the save in flight, "none" when not saving
    friends,         \* FriendsPage: the friends as last loaded
    incomingRequests,\* FriendsPage: the incoming requests as last loaded
    outgoingRequests,\* FriendsPage: the outgoing requests as last loaded
    sentRequests,    \* FriendsPage: the users a request was sent to since the page mounted
    friendsLoading,  \* FriendsPage: loading
    allData,         \* FriendsPage.loadAllData: the three answers awaited
    friendshipStatus,\* ProfilePage: the friendship with the user whose profile is shown
    activeSessions,  \* PlaySessionsPage: the open sessions as last loaded
    collectionGames, \* PlaySessionsPage: the collection as last loaded
    sessionsData,    \* PlaySessionsPage.loadData: the two answers awaited
    adding,          \* GameDetailsModal.handleAdd: how far the add of a RAWG game has got
    imports,         \* imports the server has looked up and not yet inserted
    token,           \* localStorage token: the user id it stands for, NULL when none
    auth,            \* AuthPage.handleSubmit: the login or registration in progress
    tabs,            \* two browser tabs of the user: the action on the collection each takes
    topRatedGames,   \* AnalyticsPage: the top-rated games as last loaded
    gameStats,       \* AnalyticsPage: the game statistics as last loaded
    activeUsers,     \* AnalyticsPage: the active users as last loaded
    analytics,       \* AnalyticsPage.loadAnalytics: the three results awaited
    friendsCount,    \* GameHub: the number of friends the header shows
    counts,          \* GameHub.loadInitialCounts: its position and what it awaits
    loading,         \* AuthProvider: the start-up loading screen is shown
    reloads,         \* how often window.location.reload() has built the page anew
    api,             \* api.request: the calls, the fetches and the outcome of the last call
    sessionsTab,     \* PlaySessionsPage: activeTab
    history,         \* PlaySessionsPage: the sessions of the history tab
    historyLoading,  \* PlaySessionsPage: loading, set by loadHistory
    deleting         \* the session ids whose SessionHistoryCard has deleting = true

tables == <<USER, GAME, GAME_GENRE, GAME_PLATFORM, ACHIEVEMENT,
            USER_GAMES, USER_ACHIEVEMENTS, REVIEW, PLAY_SESSION, FRIENDS>>
store == <<tables, nextId, nextSessionId, now>>
collectionView == <<collection, loadsPending, loadsInFlight, editSave>>
reviewsView == <<reviews, myReview, reviewsLoading, reviewLoads, showWriteReview,
                 editingReview, saveReply>>
friendsView == <<friends, incomingRequests, outgoingRequests, sentRequests,
                 friendsLoading, allData, friendshipStatus>>
sessionsView == <<activeSessions, collectionGames, sessionsData>>
importView == <<adding, imports>>
authView == <<token, auth>>
analyticsView == <<topRatedGames, gameStats, activeUsers, analytics>>
startView == <<loading, reloads, api>>
historyView == <<sessionsTab, history, historyLoading, deleting>>
hubRest == <<counts, startView, historyView>>
hubView == <<friendsCount, hubRest>>
client == <<user, collectionView, reviewsView, friendsView, sessionsView, importView, authView,
            tabs, analyticsView, hubView>>

\* what the handlers of one page leave alone: the state of the other pages
offCollection == <<reviewsView, friendsView, sessionsView, importView, authView, tabs, analyticsView, hubView>>
offReviews == <<collectionView, friendsView, sessionsView, importView, authView, tabs, analyticsView, hubView>>
offFriendsPage == <<collectionView, reviewsView, friendshipStatus, sessionsView, importView, authView, tabs, analyticsView, hubView>>
offProfilePage == <<collectionView, reviewsView, friends, incomingRequests, outgoingRequests,
                    sentRequests, friendsLoading, allData, sessionsView, importView, authView, tabs, analyticsView, hubView>>
offSessions == <<collectionView, reviewsView, friendsView, importView, authView, tabs, analyticsView, hubView>>
offImport == <<reviewsView, friendsView, sessionsView, authView, tabs, analyticsView, hubView>>
offAuth == <<collectionView, reviewsView, friendsView, sessionsView, importView, tabs,
             analyticsView, hubView>>
offTabs == <<collectionView, reviewsView, friendsView, sessionsView, authView, adding,
             analyticsView, hubView>>
offAnalytics == <<collectionView, reviewsView, friendsView, sessionsView, importView, authView,
                  tabs, hubView>>
offHub == <<reviewsView, friendsView, sessionsView, importView, authView, tabs, analyticsView>>

(***************************************************************************)
(* Bounds                                                                  *)
(***************************************************************************)
MaxUsers == 2
MaxGames == 2
MaxAchievements == 1
MaxRows == 3
MaxIds == 2
MaxSessions == 2
MaxClock == 1
MaxLoads == 1
MaxNewIds == 2
MaxCalls == 2

UserIds == 1..MaxUsers
GameIds == 1..MaxGames
AchievementIds == 1..MaxAchievements
RowIds == 1..MaxIds

NULL == -1
\* null where a row is expected
NoReview == [review_id |-> NULL]
NoStatus == [friendship_id |-> NULL]

PlayStatus == {"NOT_STARTED", "IN_PROGRESS", "COMPLETED", "DROPPED"}
FriendshipStatus == {"PENDING", "ACCEPTED"}

(***************************************************************************)
(* Column projections                                                      *)
(***************************************************************************)
UserIdsOf(T) == {r.user_id : r \in T}
GameIdsOf(T) == {r.game_id : r \in T}
AchievementIdsOf(T) == {r.achievement_id : r \in T}

ChildRows == Cardinality(GAME_GENRE) + Cardinality(GAME_PLATFORM)
             + Cardinality(ACHIEVEMENT) + Cardinality(USER_GAMES)
             + Cardinality(USER_ACHIEVEMENTS) + Cardinality(REVIEW)
             + Cardinality(PLAY_SESSION) + Cardinality(FRIENDS)

(***************************************************************************)
(* Constraints of the schema: the error a row raises on INSERT, "OK" when  *)
(* it raises none.                                                         *)
(***************************************************************************)
\* as USER_insert, were email not UNIQUE
USER_insert_noEmailKey(row) ==
    IF \E r \in USER : r.user_id = row.user_id THEN "DuplicateKey"
    ELSE IF \E r \in USER : r.username = row.username THEN "DuplicateKey"
    ELSE "OK"
USER_insert(row) ==
    IF \E r \in USER : r.user_id = row.user_id THEN "DuplicateKey"
    ELSE IF \E r \in USER : r.username = row.username THEN "DuplicateKey"
    ELSE IF \E r \in USER : r.email = row.email THEN "DuplicateKey"
    ELSE "OK"

\* as GAME_insert, were external_api_id not UNIQUE
GAME_insert_noExternalKey(row) ==
    IF \E r \in GAME : r.game_id = row.game_id THEN "DuplicateKey"
    ELSE "OK"
\* UNIQUE admits any number of NULLs
GAME_insert(row) ==
    IF \E r \in GAME : r.game_id = row.game_id THEN "DuplicateKey"
    ELSE IF row.external_api_id # "NULL"
            /\ \E r \in GAME : r.external_api_id = row.external_api_id THEN "DuplicateKey"
    ELSE "OK"

GAME_GENRE_insert(row) ==
    IF \E r \in GAME_GENRE : r.game_id = row.game_id /\ r.genre = row.genre THEN "DuplicateKey"
    ELSE IF row.game_id \notin GameIdsOf(GAME) THEN "ForeignKey"
    ELSE "OK"

GAME_PLATFORM_insert(row) ==
    IF \E r \in GAME_PLATFORM : r.game_id = row.game_id /\ r.platform = row.platform THEN "DuplicateKey"
    ELSE IF row.game_id \notin GameIdsOf(GAME) THEN "ForeignKey"
    ELSE "OK"

ACHIEVEMENT_insert(row) ==
    IF \E r \in ACHIEVEMENT : r.achievement_id = row.achievement_id THEN "DuplicateKey"
    ELSE IF row.game_id \notin GameIdsOf(GAME) THEN "ForeignKey"
    ELSE "OK"

USER_GAMES_insert_noKey(row) ==
    IF row.user_id \notin UserIdsOf(USER) \/ row.game_id \notin GameIdsOf(GAME) THEN "ForeignKey"
    ELSE "OK"

USER_GAMES_insert(row) ==
    IF \E r \in USER_GAMES : r.user_id = row.user_id /\ r.game_id = row.game_id THEN "DuplicateKey"
    ELSE IF row.user_id \notin UserIdsOf(USER) \/ row.game_id \notin GameIdsOf(GAME) THEN "ForeignKey"
    ELSE "OK"

USER_ACHIEVEMENTS_insert(row) ==
    IF \E r \in USER_ACHIEVEMENTS :
          r.user_id = row.user_id /\ r.achievement_id = row.achievement_id THEN "DuplicateKey"
    ELSE IF row.user_id \notin UserIdsOf(USER)
            \/ row.achievement_id \notin AchievementIdsOf(ACHIEVEMENT) THEN "ForeignKey"
    ELSE "OK"

validate_review_rating_upTo6(row) == row.rating < 1 \/ row.rating > 6
\* BEFORE INSERT ON REVIEW
validate_review_rating(row) == row.rating < 1 \/ row.rating > 5

REVIEW_insert_noPair(row) ==
    IF validate_review_rating(row) THEN "Trigger"
    ELSE IF \E r \in REVIEW : r.review_id = row.review_id THEN "DuplicateKey"
    ELSE IF row.user_id \notin UserIdsOf(USER) \/ row.game_id \notin GameIdsOf(GAME) THEN "ForeignKey"
    ELSE "OK"
REVIEW_insert(row) ==
    IF validate_review_rating(row) THEN "Trigger"
    ELSE IF \E r \in REVIEW : r.review_id = row.review_id THEN "DuplicateKey"
    ELSE IF \E r \in REVIEW : r.user_id = row.user_id /\ r.game_id = row.game_id THEN "DuplicateKey"
    ELSE IF row.user_id \notin UserIdsOf(USER) \/ row.game_id \notin GameIdsOf(GAME) THEN "ForeignKey"
    ELSE "OK"

\* as PLAY_SESSION_insert, were one open session per user a key
PLAY_SESSION_insert_oneOpen(row) ==
    IF \E r \in PLAY_SESSION : r.session_id = row.session_id THEN "DuplicateKey"
    ELSE IF row.user_id \notin UserIdsOf(USER) \/ row.game_id \notin GameIdsOf(GAME) THEN "ForeignKey"
    ELSE IF \E r \in PLAY_SESSION : r.user_id = row.user_id /\ r.end_time = NULL
         THEN "DuplicateKey"
    ELSE "OK"
PLAY_SESSION_insert(row) ==
    IF \E r \in PLAY_SESSION : r.session_id = row.session_id THEN "DuplicateKey"
    ELSE IF row.user_id \notin UserIdsOf(USER) \/ row.game_id \notin GameIdsOf(GAME) THEN "ForeignKey"
    ELSE "OK"

FRIENDS_insert_noPair(row) ==
    IF \E r \in FRIENDS : r.friendship_id = row.friendship_id THEN "DuplicateKey"
    ELSE IF row.user_id_initiator \notin UserIdsOf(USER)
            \/ row.user_id_recipient \notin UserIdsOf(USER) THEN "ForeignKey"
    ELSE "OK"
FRIENDS_insert(row) ==
    IF \E r \in FRIENDS : r.friendship_id = row.friendship_id THEN "DuplicateKey"
    ELSE IF \E r \in FRIENDS : r.user_id_initiator = row.user_id_initiator
                               /\ r.user_id_recipient = row.user_id_recipient THEN "DuplicateKey"
    ELSE IF row.user_id_initiator \notin UserIdsOf(USER)
            \/ row.user_id_recipient \notin UserIdsOf(USER) THEN "ForeignKey"
    ELSE "OK"

(***************************************************************************)
(* ON DELETE CASCADE: what is left of each child table once the users du   *)
(* and the games dg are deleted.                                           *)
(***************************************************************************)
GAME_GENRE_cascade(dg) == {r \in GAME_GENRE : r.game_id \notin dg}
GAME_PLATFORM_cascade(dg) == {r \in GAME_PLATFORM : r.game_id \notin dg}
ACHIEVEMENT_cascade(dg) == {r \in ACHIEVEMENT : r.game_id \notin dg}
USER_GAMES_cascade(du, dg) == {r \in USER_GAMES : r.user_id \notin du /\ r.game_id \notin dg}
USER_ACHIEVEMENTS_cascade_userOnly(du, da) ==
    {r \in USER_ACHIEVEMENTS : r.user_id \notin du}
USER_ACHIEVEMENTS_cascade(du, da) ==
    {r \in USER_ACHIEVEMENTS : r.user_id \notin du /\ r.achievement_id \notin da}
REVIEW_cascade(du, dg) == {r \in REVIEW : r.user_id \notin du /\ r.game_id \notin dg}
PLAY_SESSION_cascade_userOnly(du, dg) == {r \in PLAY_SESSION : r.user_id \notin du}
PLAY_SESSION_cascade(du, dg) == {r \in PLAY_SESSION : r.user_id \notin du /\ r.game_id \notin dg}
FRIENDS_cascade_initiatorOnly(du) == {r \in FRIENDS : r.user_id_initiator \notin du}
FRIENDS_cascade(du) ==
    {r \in FRIENDS : r.user_id_initiator \notin du /\ r.user_id_recipient \notin du}

\* the whole of a DELETE on USER / GAME / ACHIEVEMENT with the cascades it sets off
DeleteCascade(du, dg, da0) ==
    LET da == da0 \cup {a.achievement_id : a \in ACHIEVEMENT \ ACHIEVEMENT_cascade(dg)} IN
    /\ USER' = {r \in USER : r.user_id \notin du}
    /\ GAME' = {r \in GAME : r.game_id \notin dg}
    /\ GAME_GENRE' = GAME_GENRE_cascade(dg)
    /\ GAME_PLATFORM' = GAME_PLATFORM_cascade(dg)
    /\ ACHIEVEMENT' = {r \in ACHIEVEMENT_cascade(dg) : r.achievement_id \notin da0}
    /\ USER_GAMES' = USER_GAMES_cascade(du, dg)
    /\ USER_ACHIEVEMENTS' = USER_ACHIEVEMENTS_cascade(du, da)
    /\ REVIEW' = REVIEW_cascade(du, dg)
    /\ PLAY_SESSION' = PLAY_SESSION_cascade(du, dg)
    /\ FRIENDS' = FRIENDS_cascade(du)

(***************************************************************************)
(* Statements of the data layer.  Each is one transaction: it applies      *)
(* when the schema raises no error and leaves the store as it was          *)
(* otherwise.                                                              *)
(***************************************************************************)
\* the number of rows a DELETE removed from each child table
Cascaded ==
    [GAME_GENRE |-> Cardinality(GAME_GENRE \ GAME_GENRE'),
     GAME_PLATFORM |-> Cardinality(GAME_PLATFORM \ GAME_PLATFORM'),
     ACHIEVEMENT |-> Cardinality(ACHIEVEMENT \ ACHIEVEMENT'),
     USER_GAMES |-> Cardinality(USER_GAMES \ USER_GAMES'),
     USER_ACHIEVEMENTS |-> Cardinality(USER_ACHIEVEMENTS \ USER_ACHIEVEMENTS'),
     REVIEW |-> Cardinality(REVIEW \ REVIEW'),
     PLAY_SESSION |-> Cardinality(PLAY_SESSION \ PLAY_SESSION'),
     FRIENDS |-> Cardinality(FRIENDS \ FRIENDS')]

Reply(op, status) == resp' = [op |-> op, status |-> status]

InsertUser(row) ==
    LET err == USER_insert(row) IN
    /\ USER' = IF err = "OK" THEN USER \cup {row} ELSE USER
    /\ UNCHANGED <<GAME, GAME_GENRE, GAME_PLATFORM, ACHIEVEMENT, USER_GAMES,
                   USER_ACHIEVEMENTS, REVIEW, PLAY_SESSION, FRIENDS,
                   nextId, nextSessionId, now>>

DeleteUser(u) ==
    /\ u \in UserIdsOf(USER)
    /\ DeleteCascade({u}, {}, {})
    /\ UNCHANGED <<nextId, nextSessionId, now>>

InsertGame(row) ==
    LET err == GAME_insert(row) IN
    /\ GAME' = IF err = "OK" THEN GAME \cup {row} ELSE GAME
    /\ UNCHANGED <<USER, GAME_GENRE, GAME_PLATFORM, ACHIEVEMENT, USER_GAMES,
                   USER_ACHIEVEMENTS, REVIEW, PLAY_SESSION, FRIENDS,
                   nextId, nextSessionId, now>>

DeleteGame(g) ==
    /\ g \in GameIdsOf(GAME)
    /\ DeleteCascade({}, {g}, {})
    /\ UNCHANGED <<nextId, nextSessionId, now>>

InsertGameGenre(row) ==
    LET err == GAME_GENRE_insert(row) IN
    /\ ChildRows < MaxRows
    /\ GAME_GENRE' = IF err = "OK" THEN GAME_GENRE \cup {row} ELSE GAME_GENRE
    /\ UNCHANGED <<USER, GAME, GAME_PLATFORM, ACHIEVEMENT, USER_GAMES,
                   USER_ACHIEVEMENTS, REVIEW, PLAY_SESSION, FRIENDS,
                   nextId, nextSessionId, now>>

InsertGamePlatform(row) ==
    LET err == GAME_PLATFORM_insert(row) IN
    /\ ChildRows < MaxRows
    /\ GAME_PLATFORM' = IF err = "OK" THEN GAME_PLATFORM \cup {row} ELSE GAME_PLATFORM
    /\ UNCHANGED <<USER, GAME, GAME_GENRE, ACHIEVEMENT, USER_GAMES,
                   USER_ACHIEVEMENTS, REVIEW, PLAY_SESSION, FRIENDS,
                   nextId, nextSessionId, now>>

InsertAchievement(row) ==
    LET err == ACHIEVEMENT_insert(row) IN
    /\ ChildRows < MaxRows
    /\ ACHIEVEMENT' = IF err = "OK" THEN ACHIEVEMENT \cup {row} ELSE ACHIEVEMENT
    /\ UNCHANGED <<USER, GAME, GAME_GENRE, GAME_PLATFORM, USER_GAMES,
                   USER_ACHIEVEMENTS, REVIEW, PLAY_SESSION, FRIENDS,
                   nextId, nextSessionId, now>>

DeleteAchievement(a) ==
    /\ a \in AchievementIdsOf(ACHIEVEMENT)
    /\ DeleteCascade({}, {}, {a})
    /\ UNCHANGED <<nextId, nextSessionId, now>>

InsertUserGame(row) ==
    LET err == USER_GAMES_insert(row) IN
    /\ ChildRows < MaxRows
    /\ USER_GAMES' = IF err = "OK" THEN USER_GAMES \cup {row} ELSE USER_GAMES
    /\ UNCHANGED <<USER, GAME, GAME_GENRE, GAME_PLATFORM, ACHIEVEMENT,
                   USER_ACHIEVEMENTS, REVIEW, PLAY_SESSION, FRIENDS,
                   nextId, nextSessionId, now>>

\* UPDATE USER_GAMES SET <the columns of set> WHERE user_id = u AND game_id = g
UpdateUserGame(u, g, set) ==
    /\ USER_GAMES' = {IF r.user_id = u /\ r.game_id = g
                      THEN [c \in DOMAIN r |-> IF c \in DOMAIN set THEN set[c] ELSE r[c]]
                      ELSE r : r \in USER_GAMES}
    /\ UNCHANGED <<USER, GAME, GAME_GENRE, GAME_PLATFORM, ACHIEVEMENT,
                   USER_ACHIEVEMENTS, REVIEW, PLAY_SESSION, FRIENDS,
                   nextId, nextSessionId, now>>

DeleteUserGame(u, g) ==
    /\ \E r \in USER_GAMES : r.user_id = u /\ r.game_id = g
    /\ USER_GAMES' = {r \in USER_GAMES : ~(r.user_id = u /\ r.game_id = g)}
    /\ UNCHANGED <<USER, GAME, GAME_GENRE, GAME_PLATFORM, ACHIEVEMENT,
                   USER_ACHIEVEMENTS, REVIEW, PLAY_SESSION, FRIENDS,
                   nextId, nextSessionId, now>>

InsertUserAchievement(u, a) ==
    LET row == [user_id |-> u, achievement_id |-> a, date_earned |-> now]
        err == USER_ACHIEVEMENTS_insert(row) IN
    /\ ChildRows < MaxRows
    /\ USER_ACHIEVEMENTS' = IF err = "OK" THEN USER_ACHIEVEMENTS \cup {row} ELSE USER_ACHIEVEMENTS
    /\ UNCHANGED <<USER, GAME, GAME_GENRE, GAME_PLATFORM, ACHIEVEMENT, USER_GAMES,
                   REVIEW, PLAY_SESSION, FRIENDS, nextId, nextSessionId, now>>

\* INSERT INTO REVIEW: review_date defaults to CURRENT_TIMESTAMP
InsertReview(id, u, g, text, rating) ==
    LET row == [review_id |-> id, user_id |-> u, game_id |-> g,
                review_text |-> text, rating |-> rating, review_date |-> now]
        err == REVIEW_insert(row) IN
    /\ ChildRows < MaxRows
    /\ REVIEW' = IF err = "OK" THEN REVIEW \cup {row} ELSE REVIEW
    /\ UNCHANGED <<USER, GAME, GAME_GENRE, GAME_PLATFORM, ACHIEVEMENT, USER_GAMES,
                   USER_ACHIEVEMENTS, PLAY_SESSION, FRIENDS, nextSessionId, now>>

\* UPDATE REVIEW SET <the columns of set> WHERE review_id = id: the schema has
\* no BEFORE UPDATE trigger and no CHECK on rating
UpdateReview(id, set) ==
    /\ REVIEW' = {IF r.review_id = id
                  THEN [c \in DOMAIN r |-> IF c \in DOMAIN set THEN set[c] ELSE r[c]]
                  ELSE r : r \in REVIEW}
    /\ UNCHANGED <<USER, GAME, GAME_GENRE, GAME_PLATFORM, ACHIEVEMENT, USER_GAMES,
                   USER_ACHIEVEMENTS, PLAY_SESSION, FRIENDS, nextId, nextSessionId, now>>

DeleteReview(id) ==
    /\ \E r \in REVIEW : r.review_id = id
    /\ REVIEW' = {r \in REVIEW : r.review_id # id}
    /\ UNCHANGED <<USER, GAME, GAME_GENRE, GAME_PLATFORM, ACHIEVEMENT, USER_GAMES,
                   USER_ACHIEVEMENTS, PLAY_SESSION, FRIENDS, nextId, nextSessionId, now>>

\* INSERT INTO PLAY_SESSION: session_id AUTO_INCREMENT, start_time defaults to
\* CURRENT_TIMESTAMP, end_time to NULL
\* as PlaySessionRow, were start_time stamped in a time zone ahead of the one
\* in which sessions are ended
PlaySessionRow_zoneAhead(u, g) ==
    [session_id |-> nextSessionId + 1, user_id |-> u, game_id |-> g,
     start_time |-> now + 1, end_time |-> NULL]

PlaySessionRow(u, g) ==
    [session_id |-> nextSessionId + 1, user_id |-> u, game_id |-> g,
     start_time |-> now, end_time |-> NULL]

InsertPlaySessionRow(u, g) ==
    LET row == PlaySessionRow(u, g)
        err == PLAY_SESSION_insert(row) IN
    /\ PLAY_SESSION' = IF err = "OK" THEN PLAY_SESSION \cup {row} ELSE PLAY_SESSION
    /\ nextSessionId' = IF err = "OK" THEN nextSessionId + 1 ELSE nextSessionId
    /\ UNCHANGED <<USER, GAME, GAME_GENRE, GAME_PLATFORM, ACHIEVEMENT, USER_GAMES,
                   USER_ACHIEVEMENTS, REVIEW, FRIENDS, nextId, now>>

InsertPlaySession(u, g) ==
    /\ ChildRows < MaxRows
    /\ nextSessionId < MaxSessions
    /\ InsertPlaySessionRow(u, g)

\* UPDATE PLAY_SESSION SET <the columns of set>, every row
UpdatePlaySession_everyRow(id, set) ==
    /\ PLAY_SESSION' = {[c \in DOMAIN r |-> IF c \in DOMAIN set THEN set[c] ELSE r[c]]
                           : r \in PLAY_SESSION}
    /\ UNCHANGED <<USER, GAME, GAME_GENRE, GAME_PLATFORM, ACHIEVEMENT, USER_GAMES,
                   USER_ACHIEVEMENTS, REVIEW, FRIENDS, nextId, nextSessionId, now>>

\* UPDATE PLAY_SESSION SET <the columns of set> WHERE session_id = id
UpdatePlaySession(id, set) ==
    /\ PLAY_SESSION' = {IF r.session_id = id
                        THEN [c \in DOMAIN r |-> IF c \in DOMAIN set THEN set[c] ELSE r[c]]
                        ELSE r : r \in PLAY_SESSION}
    /\ UNCHANGED <<USER, GAME, GAME_GENRE, GAME_PLATFORM, ACHIEVEMENT, USER_GAMES,
                   USER_ACHIEVEMENTS, REVIEW, FRIENDS, nextId, nextSessionId, now>>

DeletePlaySession(id) ==
    /\ \E r \in PLAY_SESSION : r.session_id = id
    /\ PLAY_SESSION' = {r \in PLAY_SESSION : r.session_id # id}
    /\ UNCHANGED <<USER, GAME, GAME_GENRE, GAME_PLATFORM, ACHIEVEMENT, USER_GAMES,
                   USER_ACHIEVEMENTS, REVIEW, FRIENDS, nextId, nextSessionId, now>>

\* INSERT INTO FRIENDS: friendship_status defaults to 'PENDING', friendship_date
\* to CURRENT_TIMESTAMP
InsertFriend(id, a, b) ==
    LET row == [friendship_id |-> id, user_id_initiator |-> a,
                user_id_recipient |-> b, friendship_date |-> now,
                friendship_status |-> "PENDING"]
        err == FRIENDS_insert(row) IN
    /\ ChildRows < MaxRows
    /\ FRIENDS' = IF err = "OK" THEN FRIENDS \cup {row} ELSE FRIENDS
    /\ UNCHANGED <<USER, GAME, GAME_GENRE, GAME_PLATFORM, ACHIEVEMENT, USER_GAMES,
                   USER_ACHIEVEMENTS, REVIEW, PLAY_SESSION, nextSessionId, now>>

\* UPDATE FRIENDS SET <the columns of set> WHERE friendship_id = id
UpdateFriend(id, set) ==
    /\ FRIENDS' = {IF r.friendship_id = id
                   THEN [c \in DOMAIN r |-> IF c \in DOMAIN set THEN set[c] ELSE r[c]]
                   ELSE r : r \in FRIENDS}
    /\ UNCHANGED <<USER, GAME, GAME_GENRE, GAME_PLATFORM, ACHIEVEMENT, USER_GAMES,
                   USER_ACHIEVEMENTS, REVIEW, PLAY_SESSION, nextId, nextSessionId, now>>

DeleteFriend_pendingOnly(id) ==
    /\ \E r \in FRIENDS : r.friendship_id = id
    /\ FRIENDS' = {r \in FRIENDS : r.friendship_id # id \/ r.friendship_status # "PENDING"}
    /\ UNCHANGED <<USER, GAME, GAME_GENRE, GAME_PLATFORM, ACHIEVEMENT, USER_GAMES,
                   USER_ACHIEVEMENTS, REVIEW, PLAY_SESSION, nextId, nextSessionId, now>>

DeleteFriend(id) ==
    /\ \E r \in FRIENDS : r.friendship_id = id
    /\ FRIENDS' = {r \in FRIENDS : r.friendship_id # id}
    /\ UNCHANGED <<USER, GAME, GAME_GENRE, GAME_PLATFORM, ACHIEVEMENT, USER_GAMES,
                   USER_ACHIEVEMENTS, REVIEW, PLAY_SESSION, nextId, nextSessionId, now>>

(***************************************************************************)
(* Spec: the data layer on its own, every statement the schema admits.     *)
(***************************************************************************)
vars == <<store, resp, client>>

\* GameReviews as it mounts: useState([]), useState(null), useState(true),
\* useState(false), useState(null), and the first loadReviews not yet sent
InitReviewsView ==
    /\ reviews = {} /\ myReview = NoReview /\ reviewsLoading = TRUE /\ reviewLoads = 0
    /\ showWriteReview = FALSE /\ editingReview = NoReview /\ saveReply = "none"

\* FriendsPage as it mounts: useState([]) three times, useState(new Set()),
\* useState(false), and the first loadAllData not yet sent
InitFriendsView ==
    /\ friends = {} /\ incomingRequests = {} /\ outgoingRequests = {}
    /\ sentRequests = {} /\ friendsLoading = FALSE /\ allData = [pc |-> "idle"]
    /\ friendshipStatus = NoStatus

\* the pages other than the collection as they mount
InitSessionsView ==
    /\ activeSessions = {} /\ collectionGames = {} /\ sessionsData = [pc |-> "idle"]

InitImportView == adding = [pc |-> "idle"] /\ imports = {}

\* no form of the AuthPage is being submitted
InitAuthView == auth = [pc |-> "idle", error |-> ""]

InitAnalyticsView ==
    /\ topRatedGames = <<>> /\ gameStats = <<>> /\ activeUsers = <<>>
    /\ analytics = [pc |-> "idle", loads |-> 0]

\* no call of api.request yet
NoCall == [pc |-> "idle", calls |-> 0, fetches |-> 0, status |-> 0,
           outcome |-> [kind |-> "none"]]

InitHubView ==
    /\ friendsCount = 0 /\ counts = [pc |-> "idle"]
    /\ reloads = 0 /\ api = NoCall
    /\ sessionsTab = "active" /\ history = {} /\ historyLoading = FALSE /\ deleting = {}

TabIds == {"A", "B"}

InitTabs == tabs = [t \in TabIds |-> [pc |-> "idle"]]

InitPages ==
    /\ InitReviewsView /\ InitFriendsView /\ InitSessionsView /\ InitImportView
    /\ InitAuthView /\ InitTabs /\ InitAnalyticsView /\ InitHubView

Init ==
    /\ USER = {} /\ GAME = {} /\ GAME_GENRE = {} /\ GAME_PLATFORM = {}
    /\ ACHIEVEMENT = {} /\ USER_GAMES = {} /\ USER_ACHIEVEMENTS = {}
    /\ REVIEW = {} /\ PLAY_SESSION = {} /\ FRIENDS = {}
    /\ nextId = 0 /\ nextSessionId = 0 /\ now = 0
    /\ resp = [op |-> "none", status |-> "OK"]
    /\ user = NULL /\ token = NULL /\ loading = FALSE
    /\ collection = {} /\ loadsPending = 0 /\ loadsInFlight = {}
    /\ editSave = [pc |-> "closed"]
    /\ InitPages

Statement ==
    \/ \E u \in UserIds :
          LET row == [user_id |-> u, username |-> u, email |-> u] IN
          InsertUser(row) /\ Reply("INSERT", USER_insert(row))
    \/ \E u \in UserIds :
          /\ DeleteUser(u)
          /\ resp' = [op |-> "DeleteUser", status |-> "OK", cascaded |-> Cascaded]
    \/ \E g \in GameIds :
          LET row == [game_id |-> g, external_api_id |-> "NULL"] IN
          InsertGame(row) /\ Reply("INSERT", GAME_insert(row))
    \/ \E g \in GameIds :
          /\ DeleteGame(g)
          /\ resp' = [op |-> "DeleteGame", status |-> "OK", cascaded |-> Cascaded]
    \/ \E g \in GameIds :
          LET row == [game_id |-> g, genre |-> "RPG"] IN
          InsertGameGenre(row) /\ Reply("INSERT", GAME_GENRE_insert(row))
    \/ \E g \in GameIds :
          LET row == [game_id |-> g, platform |-> "PC"] IN
          InsertGamePlatform(row) /\ Reply("INSERT", GAME_PLATFORM_insert(row))
    \/ \E a \in AchievementIds, g \in GameIds :
          LET row == [achievement_id |-> a, game_id |-> g] IN
          InsertAchievement(row) /\ Reply("INSERT", ACHIEVEMENT_insert(row))
    \/ \E a \in AchievementIds :
          /\ DeleteAchievement(a)
          /\ resp' = [op |-> "DeleteAchievement", status |-> "OK", cascaded |-> Cascaded]
    \/ \E u \in UserIds, g \in GameIds :
          LET row == [user_id |-> u, game_id |-> g, play_status |-> "NOT_STARTED",
                      personal_notes |-> "NULL", rating |-> NULL] IN
          InsertUserGame(row) /\ Reply("INSERT", USER_GAMES_insert(row))
    \/ \E u \in UserIds, g \in GameIds :
          /\ \E r \in USER_GAMES : r.user_id = u /\ r.game_id = g
          /\ UpdateUserGame(u, g, [rating |-> 6])
          /\ Reply("UPDATE", "OK")
    \/ \E u \in UserIds, g \in GameIds : DeleteUserGame(u, g) /\ Reply("DELETE", "OK")
    \/ \E u \in UserIds, a \in AchievementIds :
          /\ InsertUserAchievement(u, a)
          /\ Reply("INSERT", USER_ACHIEVEMENTS_insert([user_id |-> u, achievement_id |-> a]))
    \/ \E id \in RowIds, u \in UserIds, g \in GameIds :
          /\ InsertReview(id, u, g, "NULL", 3)
          /\ UNCHANGED nextId
          /\ Reply("INSERT", REVIEW_insert([review_id |-> id, user_id |-> u, game_id |-> g,
                                            rating |-> 3]))
    \/ \E id \in RowIds :
          /\ \E r \in REVIEW : r.review_id = id
          /\ UpdateReview(id, [rating |-> 6])
          /\ Reply("UPDATE", "OK")
    \/ \E id \in RowIds : DeleteReview(id) /\ Reply("DELETE", "OK")
    \/ \E u \in UserIds, g \in GameIds :
          /\ InsertPlaySession(u, g)
          /\ Reply("INSERT", PLAY_SESSION_insert([session_id |-> nextSessionId + 1,
                                                  user_id |-> u, game_id |-> g]))
    \/ \E id \in 1..MaxSessions : DeletePlaySession(id) /\ Reply("DELETE", "OK")
    \/ \E id \in RowIds, a \in UserIds, b \in UserIds :
          /\ InsertFriend(id, a, b)
          /\ UNCHANGED nextId
          /\ Reply("INSERT", FRIENDS_insert([friendship_id |-> id, user_id_initiator |-> a,
                                             user_id_recipient |-> b]))
    \/ \E id \in RowIds : DeleteFriend(id) /\ Reply("DELETE", "OK")

Next == Statement /\ UNCHANGED client

Spec == Init /\ [][Next]_vars

(***************************************************************************)
(* Collection management of the REST layer: one transaction per request.   *)
(***************************************************************************)
HasEntry(u, g) == \E r \in USER_GAMES : r.user_id = u /\ r.game_id = g

\* POST /collection/{g}/add/: create the entry, or update status and rating
\* of the one the primary key reports as existing
addToCollection(u, g, data) ==
    LET row == [user_id |-> u, game_id |-> g, play_status |-> data.play_status,
                personal_notes |-> "NULL", rating |-> data.rating]
        err == USER_GAMES_insert(row) IN
    /\ IF err = "DuplicateKey" THEN UpdateUserGame(u, g, data) ELSE InsertUserGame(row)
    /\ resp' = [op |-> "addToCollection",
                status |-> IF err = "ForeignKey" THEN "NotFound" ELSE "OK",
                created |-> err = "OK"]

\* PUT /collection/{g}/status/, /rating/, /notes/
updateCollectionEntry(u, g, set) ==
    /\ IF HasEntry(u, g) THEN UpdateUserGame(u, g, set) ELSE UNCHANGED store
    /\ resp' = [op |-> "updateCollectionEntry",
                status |-> IF HasEntry(u, g) THEN "OK" ELSE "NotFound"]

\* DELETE /collection/{g}/
deleteCollectionEntry(u, g) ==
    /\ IF HasEntry(u, g) THEN DeleteUserGame(u, g) ELSE UNCHANGED store
    /\ resp' = [op |-> "deleteCollectionEntry",
                status |-> IF HasEntry(u, g) THEN "OK" ELSE "NotFound"]

\* GET /collection/
listCollectionForUser(u) == {r \in USER_GAMES : r.user_id = u}

(***************************************************************************)
(* The client's collection: GameDetailsModal, CollectionEditModal and      *)
(* GameHub.                                                                *)
(***************************************************************************)
Stars == 1..5
\* the stars the model clicks: the lowest and the highest
StarInputs == {s \in Stars : (\A t \in Stars : s <= t) \/ (\A t \in Stars : s >= t)}
StatusInputs == {"NOT_STARTED", "COMPLETED"}
NoteInputs == {"n"}

\* onClick={() => setRating(star === rating ? null : star)}
StarClick(rating, star) == IF star = rating THEN NULL ELSE star

\* the ratings a modal opened with rating r0 can hold after any clicks on the
\* stars (and on Clear): two rounds of clicks reach all of them
RatingsAfterClicks(r0, withClear) ==
    LET R0 == {r0} \cup (IF withClear THEN {NULL} ELSE {})
        R1 == R0 \cup {StarClick(r, s) : r \in R0, s \in StarInputs}
    IN  R1 \cup {StarClick(r, s) : r \in R1, s \in StarInputs}

LoadsOutstanding == loadsPending + Cardinality(loadsInFlight)

\* GameHub.loadCollection: the request is sent
loadCollection == loadsPending' = loadsPending + 1

\* GameDetailsModal.handleAdd on a game of the catalogue, through
\* GameHub.addToCollection: the collection is reloaded when the POST succeeded
handleAdd(g, playStatus, rating) ==
    /\ user # NULL
    /\ LoadsOutstanding < MaxLoads
    /\ addToCollection(user, g, [play_status |-> playStatus, rating |-> rating])
    /\ IF resp'.status = "OK" THEN loadCollection ELSE UNCHANGED loadsPending
    /\ UNCHANGED <<offCollection, user, collection, loadsInFlight, editSave>>

\* GameHub.removeFromCollection on an item of the list shown
removeFromCollection(g) ==
    /\ user # NULL
    /\ g \in GameIdsOf(collection)
    /\ LoadsOutstanding < MaxLoads
    /\ deleteCollectionEntry(user, g)
    /\ IF resp'.status = "OK" THEN loadCollection ELSE UNCHANGED loadsPending
    /\ UNCHANGED <<offCollection, user, collection, loadsInFlight, editSave>>

\* GameHub useEffect(activeTab): the collection tab is opened
openCollectionTab ==
    /\ user # NULL
    /\ LoadsOutstanding < MaxLoads
    /\ loadCollection
    /\ UNCHANGED <<store, resp, offCollection, user, collection, loadsInFlight, editSave>>

\* the server answers a GET /collection/
serveCollection ==
    /\ loadsPending > 0
    /\ loadsPending' = loadsPending - 1
    /\ loadsInFlight' = loadsInFlight \cup {listCollectionForUser(user)}
    /\ UNCHANGED <<store, resp, offCollection, user, collection, editSave>>

\* setCollection(data)
setCollection(data) ==
    /\ data \in loadsInFlight
    /\ collection' = data
    /\ loadsInFlight' = loadsInFlight \ {data}
    /\ UNCHANGED <<store, resp, offCollection, user, loadsPending, editSave>>

\* setEditingItem(item): CollectionEditModal opens on an item of the list,
\* useState(item.rating)
setEditingItem(item) ==
    /\ editSave.pc = "closed"
    /\ item \in collection
    /\ editSave' = [pc |-> "open", game_id |-> item.game_id, rating |-> item.rating]
    /\ UNCHANGED <<store, resp, offCollection, user, collection, loadsPending, loadsInFlight>>

\* onClose
closeEdit ==
    /\ editSave.pc = "open"
    /\ editSave' = [pc |-> "closed"]
    /\ UNCHANGED <<store, resp, offCollection, user, collection, loadsPending, loadsInFlight>>

\* the ratings the open CollectionEditModal can hold
FormRatings ==
    IF editSave.pc = "open" THEN RatingsAfterClicks(editSave.rating, TRUE) ELSE {}

\* CollectionEditModal.handleSave with the form holding playStatus, rating and
\* notes; first request: the status
handleSaveStatus(playStatus, rating, notes) ==
    /\ editSave.pc = "open"
    /\ updateCollectionEntry(user, editSave.game_id, [play_status |-> playStatus])
    /\ editSave' = IF resp'.status = "OK"
                   THEN [pc |-> "rating", game_id |-> editSave.game_id,
                         playStatus |-> playStatus, rating |-> rating, notes |-> notes]
                   ELSE [editSave EXCEPT !.rating = rating]
    /\ UNCHANGED <<offCollection, user, collection, loadsPending, loadsInFlight>>

\* second request: the rating, if (rating !== null)
handleSaveRating ==
    /\ editSave.pc = "rating"
    /\ IF editSave.rating # NULL
       THEN /\ updateCollectionEntry(user, editSave.game_id, [rating |-> editSave.rating])
            /\ editSave' = IF resp'.status = "OK"
                           THEN [editSave EXCEPT !.pc = "notes"]
                           ELSE [pc |-> "open", game_id |-> editSave.game_id,
                                 rating |-> editSave.rating]
       ELSE /\ editSave' = [editSave EXCEPT !.pc = "notes"]
            /\ UNCHANGED <<store, resp>>
    /\ UNCHANGED <<offCollection, user, collection, loadsPending, loadsInFlight>>

\* third request: the notes; then onUpdate() reloads the collection and
\* onClose() closes the modal
handleSaveNotes ==
    /\ editSave.pc = "notes"
    /\ LoadsOutstanding < MaxLoads
    /\ updateCollectionEntry(user, editSave.game_id, [personal_notes |-> editSave.notes])
    /\ IF resp'.status = "OK"
       THEN editSave' = [pc |-> "closed"] /\ loadCollection
       ELSE /\ editSave' = [pc |-> "open", game_id |-> editSave.game_id,
                            rating |-> editSave.rating]
            /\ UNCHANGED loadsPending
    /\ UNCHANGED <<offCollection, user, collection, loadsInFlight>>

\* the same requests sent from another browser of the same user
otherSession ==
    /\ user # NULL
    /\ \/ \E g \in GameIds, st \in StatusInputs, r \in RatingsAfterClicks(NULL, FALSE) :
             addToCollection(user, g, [play_status |-> st, rating |-> r])
       \/ \E row \in listCollectionForUser(user), st \in StatusInputs :
             updateCollectionEntry(user, row.game_id, [play_status |-> st])
       \/ \E row \in listCollectionForUser(user) :
             \E r \in RatingsAfterClicks(row.rating, TRUE) \ {NULL} :
                updateCollectionEntry(user, row.game_id, [rating |-> r])
       \/ \E row \in listCollectionForUser(user), n \in NoteInputs :
             updateCollectionEntry(user, row.game_id, [personal_notes |-> n])
       \/ \E row \in listCollectionForUser(user) : deleteCollectionEntry(user, row.game_id)
    /\ UNCHANGED client

\* another user adds a game with the form as GameDetailsModal opens it, or
\* removes it
otherUser ==
    /\ \E u \in UserIds \ {user} :
          \/ \E g \in GameIds : addToCollection(u, g, [play_status |-> "NOT_STARTED",
                                                        rating |-> NULL])
          \/ \E g \in GameIds : deleteCollectionEntry(u, g)
    /\ UNCHANGED client

InitCollection ==
    /\ USER = {[user_id |-> u, username |-> u, email |-> u] : u \in UserIds}
    /\ GAME = {[game_id |-> 1, external_api_id |-> "NULL"]}
    /\ GAME_GENRE = {} /\ GAME_PLATFORM = {} /\ ACHIEVEMENT = {}
    /\ USER_GAMES = {} /\ USER_ACHIEVEMENTS = {}
    /\ REVIEW = {} /\ PLAY_SESSION = {} /\ FRIENDS = {}
    /\ nextId = 0 /\ nextSessionId = 0 /\ now = 0
    /\ resp = [op |-> "none", status |-> "OK"]
    /\ user = 1 /\ token = 1 /\ loading = FALSE
    /\ collection = {} /\ loadsPending = 0 /\ loadsInFlight = {}
    /\ editSave = [pc |-> "closed"]
    /\ InitPages

NextCollection ==
    \/ \E g \in GameIds, st \in StatusInputs, r \in RatingsAfterClicks(NULL, FALSE) :
          handleAdd(g, st, r)
    \/ \E g \in GameIds : removeFromCollection(g)
    \/ openCollectionTab
    \/ serveCollection
    \/ \E data \in loadsInFlight : setCollection(data)
    \/ \E item \in collection : setEditingItem(item)
    \/ closeEdit
    \/ \E st \in StatusInputs, r \in FormRatings, n \in NoteInputs :
          handleSaveStatus(st, r, n)
    \/ handleSaveRating
    \/ handleSaveNotes
    \/ otherSession
    \/ otherUser

SpecCollection == InitCollection /\ [][NextCollection]_vars

\* the client alone, with no other browser and no other user
NextEdit ==
    \/ \E g \in GameIds, st \in StatusInputs, r \in RatingsAfterClicks(NULL, FALSE) :
          handleAdd(g, st, r)
    \/ \E g \in GameIds : removeFromCollection(g)
    \/ openCollectionTab
    \/ serveCollection
    \/ \E data \in loadsInFlight : setCollection(data)
    \/ \E item \in collection : setEditingItem(item)
    \/ closeEdit
    \/ \E st \in StatusInputs, r \in FormRatings, n \in NoteInputs :
          handleSaveStatus(st, r, n)
    \/ handleSaveRating
    \/ handleSaveNotes

SpecEdit == InitCollection /\ [][NextEdit]_vars

(***************************************************************************)
(* Review management of the REST layer: one transaction per request.  The  *)
(* layer generates the review_id and leaves the checks to the schema.      *)
(***************************************************************************)
\* POST /reviews/games/{g}/
createReview(u, g, data) ==
    LET err == REVIEW_insert([review_id |-> nextId + 1, user_id |-> u, game_id |-> g,
                              rating |-> data.rating]) IN
    /\ err = "OK" => nextId < MaxNewIds
    /\ InsertReview(nextId + 1, u, g, data.review_text, data.rating)
    /\ nextId' = IF err = "OK" THEN nextId + 1 ELSE nextId
    /\ resp' = [op |-> "createReview",
                status |-> CASE err = "OK" -> "OK"
                             [] err = "Trigger" -> "ValidationError"
                             [] err = "DuplicateKey" -> "Conflict"
                             [] OTHER -> "NotFound",
                user_id |-> u, rating |-> data.rating]

OwnsReview(u, id) == \E r \in REVIEW : r.review_id = id /\ r.user_id = u

\* PUT /reviews/{id}/
updateReview(u, id, data) ==
    /\ IF OwnsReview(u, id) THEN UpdateReview(id, data) ELSE UNCHANGED store
    /\ resp' = [op |-> "updateReview",
                status |-> IF OwnsReview(u, id) THEN "OK" ELSE "NotFound",
                user_id |-> u, review_id |-> id, rating |-> data.rating]

\* DELETE /reviews/{id}/
deleteReview(u, id) ==
    /\ IF OwnsReview(u, id) THEN DeleteReview(id) ELSE UNCHANGED store
    /\ resp' = [op |-> "deleteReview",
                status |-> IF OwnsReview(u, id) THEN "OK" ELSE "NotFound"]

\* GET /reviews/games/{g}/
listReviewsForGame(g) == {r \in REVIEW : r.game_id = g}

(***************************************************************************)
(* The client's reviews of one game: GameReviews and WriteReview, mounted  *)
(* for the logged-in user (role USER) on the game gameId.                  *)
(***************************************************************************)
gameId == 1

ReviewTextInputs == {"t"}
\* the ratings a request can carry
RatingInputs == 0..6

saving == saveReply # "none"

\* what the page shows once loading is over
ShowsMyReview == ~reviewsLoading /\ myReview # NoReview /\ ~showWriteReview
ShowsWriteReview == ~reviewsLoading /\ ~ShowsMyReview /\ showWriteReview
ShowsWriteButton == ~reviewsLoading /\ ~ShowsMyReview /\ ~showWriteReview /\ myReview = NoReview

\* WriteReview: useState(existingReview?.rating || 0), and the stars clicked
WriteReviewRatings ==
    {IF editingReview = NoReview THEN 0 ELSE editingReview.rating} \cup StarInputs

\* loadReviews up to its await: setLoading(true) and the GET is sent
loadReviews ==
    /\ reviewsLoading' = TRUE
    /\ reviewLoads' = reviewLoads + 1

\* the component mounts: fresh state, useEffect(() => { loadReviews() }, [gameId])
mountGameReviews ==
    /\ user # NULL
    /\ reviewLoads = 0 /\ ~saving
    /\ reviews' = {} /\ myReview' = NoReview
    /\ showWriteReview' = FALSE /\ editingReview' = NoReview
    /\ loadReviews
    /\ UNCHANGED <<store, resp, user, offReviews, saveReply>>

\* loadReviews from its await on: the answer is split into mine and others
loadReviewsDone ==
    LET data == listReviewsForGame(gameId)
        mine == {r \in data : r.user_id = user} IN
    /\ reviewLoads > 0
    /\ reviewLoads' = reviewLoads - 1
    /\ myReview' = IF mine = {} THEN NoReview ELSE CHOOSE r \in mine : TRUE
    /\ reviews' = data \ mine
    /\ showWriteReview' = (mine = {})
    /\ reviewsLoading' = FALSE
    /\ UNCHANGED <<store, resp, user, offReviews, editingReview, saveReply>>

\* loadReviews when the GET fails: catch logs, finally setLoading(false)
loadReviewsFailed ==
    /\ reviewLoads > 0
    /\ reviewLoads' = reviewLoads - 1
    /\ reviewsLoading' = FALSE
    /\ UNCHANGED <<store, resp, user, offReviews, reviews, myReview,
                   showWriteReview, editingReview, saveReply>>

\* onClick={() => setShowWriteReview(true)} of the Write a Review button
writeReviewClick ==
    /\ ShowsWriteButton
    /\ showWriteReview' = TRUE
    /\ UNCHANGED <<store, resp, user, offReviews, reviews, myReview,
                   reviewsLoading, reviewLoads, editingReview, saveReply>>

handleEditMyReview ==
    /\ ShowsMyReview
    /\ editingReview' = myReview
    /\ showWriteReview' = TRUE
    /\ UNCHANGED <<store, resp, user, offReviews, reviews, myReview,
                   reviewsLoading, reviewLoads, saveReply>>

\* onCancel of WriteReview, passed only while editing
onCancel ==
    /\ ShowsWriteReview
    /\ editingReview # NoReview
    /\ editingReview' = NoReview
    /\ showWriteReview' = FALSE
    /\ UNCHANGED <<store, resp, user, offReviews, reviews, myReview,
                   reviewsLoading, reviewLoads, saveReply>>

\* WriteReview.handleSave and GameReviews.handleSaveReview up to the await:
\* the PUT or the POST is sent and served
handleSaveReview(reviewData) ==
    /\ user # NULL
    /\ ShowsWriteReview
    /\ ~saving
    /\ reviewData.rating # 0
    /\ IF editingReview # NoReview
       THEN updateReview(user, editingReview.review_id, reviewData)
       ELSE createReview(user, gameId, reviewData)
    /\ saveReply' = resp'.status
    /\ UNCHANGED <<user, offReviews, reviews, myReview, reviewsLoading,
                   reviewLoads, showWriteReview, editingReview>>

\* handleSaveReview from the await on: a failed request throws and
\* WriteReview alerts; setSaving(false) either way
handleSaveReviewDone ==
    /\ saving
    /\ saveReply' = "none"
    /\ IF saveReply = "OK"
       THEN /\ reviewLoads < MaxLoads
            /\ editingReview' = NoReview
            /\ showWriteReview' = FALSE
            /\ loadReviews
       ELSE UNCHANGED <<editingReview, showWriteReview, reviewsLoading, reviewLoads>>
    /\ UNCHANGED <<store, resp, user, offReviews, reviews, myReview>>

\* handleDeleteReview on the card of the user's own review
handleDeleteReview ==
    /\ user # NULL
    /\ ShowsMyReview
    /\ reviewLoads < MaxLoads
    /\ deleteReview(user, myReview.review_id)
    /\ IF resp'.status = "OK" THEN loadReviews ELSE UNCHANGED <<reviewsLoading, reviewLoads>>
    /\ UNCHANGED <<user, offReviews, reviews, myReview, showWriteReview,
                   editingReview, saveReply>>

\* requests of the same user from another client of the REST layer
otherSessionReview ==
    /\ user # NULL
    /\ \/ \E r \in RatingInputs : createReview(user, gameId, [rating |-> r, review_text |-> "NULL"])
       \/ \E row \in REVIEW, r \in RatingInputs :
             updateReview(user, row.review_id, [rating |-> r])
       \/ \E row \in REVIEW : deleteReview(user, row.review_id)
    /\ UNCHANGED client

\* another user reviews the game, or deletes a review
otherUserReview ==
    /\ \E u \in UserIds \ {user} :
          \/ createReview(u, gameId, [rating |-> 1, review_text |-> "NULL"])
          \/ \E row \in REVIEW : deleteReview(u, row.review_id)
    /\ UNCHANGED client

\* CURRENT_TIMESTAMP advances
tick ==
    /\ now < MaxClock
    /\ now' = now + 1
    /\ UNCHANGED <<tables, nextId, nextSessionId, resp, client>>

InitReview ==
    /\ USER = {[user_id |-> u, username |-> u, email |-> u] : u \in UserIds}
    /\ GAME = {[game_id |-> gameId, external_api_id |-> "NULL"]}
    /\ GAME_GENRE = {} /\ GAME_PLATFORM = {} /\ ACHIEVEMENT = {}
    /\ USER_GAMES = {} /\ USER_ACHIEVEMENTS = {}
    /\ REVIEW = {} /\ PLAY_SESSION = {} /\ FRIENDS = {}
    /\ nextId = 0 /\ nextSessionId = 0 /\ now = 0
    /\ resp = [op |-> "none", status |-> "OK"]
    /\ user = 1 /\ token = 1 /\ loading = FALSE
    /\ collection = {} /\ loadsPending = 0 /\ loadsInFlight = {}
    /\ editSave = [pc |-> "closed"]
    /\ InitPages

NextReview ==
    \/ mountGameReviews
    \/ loadReviewsDone
    \/ loadReviewsFailed
    \/ writeReviewClick
    \/ handleEditMyReview
    \/ onCancel
    \/ \E r \in WriteReviewRatings, t \in ReviewTextInputs :
          handleSaveReview([rating |-> r, review_text |-> t])
    \/ handleSaveReviewDone
    \/ handleDeleteReview
    \/ otherSessionReview
    \/ otherUserReview
    \/ tick

SpecReview == InitReview /\ [][NextReview]_vars

(***************************************************************************)
(* Friendship management of the REST layer: one transaction per request.   *)
(* The layer generates the friendship_id and leaves the uniqueness of the  *)
(* ordered pair to the schema.                                             *)
(***************************************************************************)
\* POST /friends/{v}/request/
createFriendRequest(u, v) ==
    LET err == FRIENDS_insert([friendship_id |-> nextId + 1, user_id_initiator |-> u,
                               user_id_recipient |-> v]) IN
    /\ err = "OK" => nextId < MaxNewIds
    /\ InsertFriend(nextId + 1, u, v)
    /\ nextId' = IF err = "OK" THEN nextId + 1 ELSE nextId
    /\ resp' = [op |-> "createFriendRequest",
                status |-> CASE err = "OK" -> "OK"
                             [] err = "DuplicateKey" -> "Conflict"
                             [] OTHER -> "NotFound",
                initiator |-> u, recipient |-> v]

\* PUT /friends/{id}/accept/
acceptFriendRequest(u, id) ==
    LET status == IF ~(\E r \in FRIENDS : r.friendship_id = id) THEN "NotFound"
                  ELSE IF ~(\E r \in FRIENDS : r.friendship_id = id /\ r.user_id_recipient = u)
                       THEN "Forbidden"
                  ELSE "OK" IN
    /\ IF status = "OK" THEN UpdateFriend(id, [friendship_status |-> "ACCEPTED"])
                        ELSE UNCHANGED store
    /\ resp' = [op |-> "acceptFriendRequest", status |-> status,
                caller |-> u, friendship_id |-> id]

\* DELETE /friends/{id}/reject/ and DELETE /friends/{id}/
rejectOrRemoveFriendship(u, id) ==
    LET edge == {r \in FRIENDS : /\ r.friendship_id = id
                                 /\ u \in {r.user_id_initiator, r.user_id_recipient}} IN
    /\ IF edge # {} THEN DeleteFriend(id) ELSE UNCHANGED store
    /\ resp' = [op |-> "rejectOrRemoveFriendship",
                status |-> IF edge # {} THEN "OK" ELSE "NotFound",
                caller |-> u, friendship_id |-> id,
                was |-> IF edge # {} THEN (CHOOSE r \in edge : TRUE).friendship_status
                        ELSE "NONE"]

\* GET /friends/check/{v}/: the answers the edges between u and v in the table
\* F allow, one per edge, or the answer that there is none
checkFriendshipStatus(F, u, v) ==
    LET edges == {r \in F : {r.user_id_initiator, r.user_id_recipient} = {u, v}} IN
    IF edges = {}
    THEN {[userId |-> v, friendship_id |-> NULL, are_friends |-> FALSE, status |-> "NONE"]}
    ELSE {[userId |-> v, friendship_id |-> r.friendship_id,
           are_friends |-> r.friendship_status = "ACCEPTED",
           status |-> r.friendship_status] : r \in edges}

\* GET /friends/details/
listFriends(u) ==
    {r \in FRIENDS : /\ r.friendship_status = "ACCEPTED"
                     /\ u \in {r.user_id_initiator, r.user_id_recipient}}

\* GET /friends/requests/incoming/
listIncomingRequests(u) ==
    {r \in FRIENDS : r.friendship_status = "PENDING" /\ r.user_id_recipient = u}

\* GET /friends/requests/outgoing/
listOutgoingRequests(u) ==
    {r \in FRIENDS : r.friendship_status = "PENDING" /\ r.user_id_initiator = u}

(***************************************************************************)
(* The client's friends: FriendsPage with its FriendRequestCard,           *)
(* FriendCard and UserSearchCard.                                          *)
(***************************************************************************)
\* the users of the friends scenario: the logged-in user and two others
FriendUserIds == 1..(MaxUsers + 1)

\* the requests whose card has an Accept button: type="incoming"
AcceptOffered_outgoing == incomingRequests \cup outgoingRequests
AcceptOffered == incomingRequests

\* the requests whose card has a Reject or a Cancel button
RejectOffered == incomingRequests \cup outgoingRequests

\* loadAllData up to its await: the three GETs are sent
loadAllData ==
    allData' = [pc |-> "loading", friends |-> <<>>, incoming |-> <<>>, outgoing |-> <<>>]

\* the page is opened: fresh state, useEffect(() => { loadAllData() }, [])
mountFriendsPage ==
    /\ user # NULL
    /\ friendshipStatus = NoStatus
    /\ allData.pc = "idle"
    /\ ~friendsLoading
    /\ friends' = {} /\ incomingRequests' = {} /\ outgoingRequests' = {}
    /\ sentRequests' = {}
    /\ loadAllData
    /\ UNCHANGED <<store, resp, user, offFriendsPage, friendsLoading>>

\* the server answers one of the three GETs of loadAllData
serveAllData(part) ==
    /\ allData.pc = "loading"
    /\ allData[part] = <<>>
    /\ allData' = [allData EXCEPT ![part] =
                      <<CASE part = "friends" -> listFriends(user)
                          [] part = "incoming" -> listIncomingRequests(user)
                          [] part = "outgoing" -> listOutgoingRequests(user)>>]
    /\ UNCHANGED <<store, resp, user, offFriendsPage, friends,
                   incomingRequests, outgoingRequests, sentRequests, friendsLoading>>

\* <FriendsPage onFriendsUpdate={(count) => setFriendsCount(count)} />
onFriendsUpdate(count) == friendsCount' = count

\* loadAllData from its await on: Promise.all has the three answers; the count
\* of GET /friends/details/ is the number of the friends it lists
loadAllDataDone ==
    /\ allData.pc = "loading"
    /\ allData.friends # <<>> /\ allData.incoming # <<>> /\ allData.outgoing # <<>>
    /\ friends' = allData.friends[1]
    /\ incomingRequests' = allData.incoming[1]
    /\ outgoingRequests' = allData.outgoing[1]
    /\ onFriendsUpdate(Cardinality(allData.friends[1]))
    /\ allData' = [pc |-> "idle"]
    /\ UNCHANGED <<store, resp, user, collectionView, reviewsView, friendshipStatus,
                   sessionsView, importView, authView, tabs, analyticsView, hubRest,
                   sentRequests, friendsLoading>>

\* sendFriendRequest from the card of a user the search found (any other
\* user); the button is disabled once requestSent; loadOutgoingRequests is
\* sent on success
sendFriendRequest(userId) ==
    /\ user # NULL
    /\ friendshipStatus = NoStatus
    /\ userId \notin sentRequests
    /\ ~friendsLoading
    /\ createFriendRequest(user, userId)
    /\ IF resp'.status = "OK"
       THEN sentRequests' = sentRequests \cup {userId} /\ friendsLoading' = TRUE
       ELSE UNCHANGED <<sentRequests, friendsLoading>>
    /\ UNCHANGED <<user, offFriendsPage, friends, incomingRequests,
                   outgoingRequests, allData>>

\* loadOutgoingRequests from its await on
loadOutgoingRequestsDone ==
    /\ friendsLoading
    /\ outgoingRequests' = listOutgoingRequests(user)
    /\ friendsLoading' = FALSE
    /\ UNCHANGED <<store, resp, user, offFriendsPage, friends,
                   incomingRequests, sentRequests, allData>>

\* acceptRequest from the Accept button of a card; loadAllData on success
acceptRequest(friendshipId) ==
    /\ user # NULL
    /\ ~friendsLoading
    /\ allData.pc = "idle"
    /\ friendshipId \in {r.friendship_id : r \in AcceptOffered}
    /\ acceptFriendRequest(user, friendshipId)
    /\ IF resp'.status = "OK" THEN loadAllData ELSE UNCHANGED allData
    /\ UNCHANGED <<user, offFriendsPage, friends, incomingRequests,
                   outgoingRequests, sentRequests, friendsLoading>>

\* rejectRequest from the Reject or Cancel button of a card
rejectRequest(friendshipId) ==
    /\ user # NULL
    /\ ~friendsLoading
    /\ allData.pc = "idle"
    /\ friendshipId \in {r.friendship_id : r \in RejectOffered}
    /\ rejectOrRemoveFriendship(user, friendshipId)
    /\ IF resp'.status = "OK" THEN loadAllData ELSE UNCHANGED allData
    /\ UNCHANGED <<user, offFriendsPage, friends, incomingRequests,
                   outgoingRequests, sentRequests, friendsLoading>>

\* removeFriend from the card of a friend, once confirmed
removeFriend(friendshipId) ==
    /\ user # NULL
    /\ ~friendsLoading
    /\ allData.pc = "idle"
    /\ friendshipId \in {r.friendship_id : r \in friends}
    /\ rejectOrRemoveFriendship(user, friendshipId)
    /\ IF resp'.status = "OK" THEN loadAllData ELSE UNCHANGED allData
    /\ UNCHANGED <<user, offFriendsPage, friends, incomingRequests,
                   outgoingRequests, sentRequests, friendsLoading>>

\* ProfilePage.loadProfile on the profile of another user, as far as the
\* friendship goes: setFriendshipStatus(friendStatus)
loadProfile(userId) ==
    friendshipStatus' \in checkFriendshipStatus(FRIENDS', user, userId)

\* GameHub shows the profile of another user in place of the tabs
\* (setViewingProfile(userId)): the friends page is gone, the profile page
\* mounts and loads
mountProfilePage(userId) ==
    /\ user # NULL
    /\ friendshipStatus = NoStatus
    /\ friends' = {} /\ incomingRequests' = {} /\ outgoingRequests' = {}
    /\ sentRequests' = {} /\ friendsLoading' = FALSE /\ allData' = [pc |-> "idle"]
    /\ UNCHANGED <<store, resp, user, collectionView, reviewsView, sessionsView, importView, authView, tabs, analyticsView, hubView>>
    /\ loadProfile(userId)

\* Back to App: setViewingProfile(null)
onClose ==
    /\ friendshipStatus # NoStatus
    /\ friendshipStatus' = NoStatus
    /\ UNCHANGED <<store, resp, user, offProfilePage>>

\* ProfilePage.handleAddFriend, offered when the two are neither friends nor
\* pending; loadProfile on success
handleAddFriend ==
    /\ user # NULL
    /\ friendshipStatus # NoStatus
    /\ ~friendshipStatus.are_friends /\ friendshipStatus.status # "PENDING"
    /\ createFriendRequest(user, friendshipStatus.userId)
    /\ IF resp'.status = "OK"
       THEN loadProfile(friendshipStatus.userId)
       ELSE UNCHANGED friendshipStatus
    /\ UNCHANGED <<user, offProfilePage>>

\* ProfilePage.handleRemoveFriend, offered when are_friends, once confirmed;
\* loadProfile on success
handleRemoveFriend ==
    /\ user # NULL
    /\ friendshipStatus # NoStatus
    /\ friendshipStatus.are_friends
    /\ rejectOrRemoveFriendship(user, friendshipStatus.friendship_id)
    /\ IF resp'.status = "OK"
       THEN loadProfile(friendshipStatus.userId)
       ELSE UNCHANGED friendshipStatus
    /\ UNCHANGED <<user, offProfilePage>>

\* the requests of the other users, to any friendship id
otherUserFriends ==
    /\ \E u \in FriendUserIds \ {user} :
          \/ \E v \in FriendUserIds \ {u} : createFriendRequest(u, v)
          \/ \E id \in 1..MaxNewIds : acceptFriendRequest(u, id)
          \/ \E r \in FRIENDS : rejectOrRemoveFriendship(u, r.friendship_id)
    /\ UNCHANGED client

InitFriends ==
    /\ USER = {[user_id |-> u, username |-> u, email |-> u] : u \in FriendUserIds}
    /\ GAME = {} /\ GAME_GENRE = {} /\ GAME_PLATFORM = {} /\ ACHIEVEMENT = {}
    /\ USER_GAMES = {} /\ USER_ACHIEVEMENTS = {}
    /\ REVIEW = {} /\ PLAY_SESSION = {} /\ FRIENDS = {}
    /\ nextId = 0 /\ nextSessionId = 0 /\ now = 0
    /\ resp = [op |-> "none", status |-> "OK"]
    /\ user = 1 /\ token = 1 /\ loading = FALSE
    /\ collection = {} /\ loadsPending = 0 /\ loadsInFlight = {}
    /\ editSave = [pc |-> "closed"]
    /\ InitPages

NextFriends ==
    \/ mountFriendsPage
    \/ \E part \in {"friends", "incoming", "outgoing"} : serveAllData(part)
    \/ loadAllDataDone
    \/ \E userId \in FriendUserIds \ {user} : sendFriendRequest(userId)
    \/ loadOutgoingRequestsDone
    \/ \E id \in 1..MaxNewIds : acceptRequest(id)
    \/ \E id \in 1..MaxNewIds : rejectRequest(id)
    \/ \E id \in 1..MaxNewIds : removeFriend(id)
    \/ \E userId \in FriendUserIds \ {user} : mountProfilePage(userId)
    \/ onClose
    \/ handleAddFriend
    \/ handleRemoveFriend
    \/ otherUserFriends

SpecFriends == InitFriends /\ [][NextFriends]_vars

(***************************************************************************)
(* Play sessions: the REST layer (modelled from the specification) and the *)
(* client's PlaySessionsPage and ActiveSessionCard.                        *)
(***************************************************************************)
\* POST /sessions/start/ {game_id}
startSession(u, g) ==
    LET err == PLAY_SESSION_insert(PlaySessionRow(u, g)) IN
    /\ nextSessionId < MaxSessions
    /\ InsertPlaySessionRow(u, g)
    /\ resp' = [op |-> "startSession",
                status |-> CASE err = "OK" -> "OK"
                             [] err = "ForeignKey" -> "NotFound"
                             [] OTHER -> "Conflict",
                user_id |-> u, game_id |-> g, session_id |-> nextSessionId + 1]

\* PUT /sessions/{id}/end/: end_time is the server's current time
endSession(u, id) ==
    LET open == {r \in PLAY_SESSION : /\ r.session_id = id
                                      /\ r.user_id = u
                                      /\ r.end_time = NULL} IN
    /\ IF open # {} THEN UpdatePlaySession(id, [end_time |-> now]) ELSE UNCHANGED store
    /\ resp' = [op |-> "endSession", status |-> IF open # {} THEN "OK" ELSE "NotFound",
                user_id |-> u, session_id |-> id]

\* DELETE /sessions/{id}/
deleteSession(u, id) ==
    LET own == {r \in PLAY_SESSION : r.session_id = id /\ r.user_id = u} IN
    /\ IF own # {} THEN DeletePlaySession(id) ELSE UNCHANGED store
    /\ resp' = [op |-> "deleteSession", status |-> IF own # {} THEN "OK" ELSE "NotFound",
                user_id |-> u, session_id |-> id]

\* GET /sessions/?active_only=true
listSessions(u, activeOnly) ==
    {r \in PLAY_SESSION : r.user_id = u /\ (activeOnly => r.end_time = NULL)}

\* loadData up to its await: the two GETs are sent
loadData ==
    sessionsData' = [pc |-> "loading", sessions |-> <<>>, collection |-> <<>>]

\* the page is opened: fresh state, useEffect(() => { loadData() }, [])
mountPlaySessionsPage ==
    /\ user # NULL
    /\ sessionsData.pc = "idle"
    /\ activeSessions' = {} /\ collectionGames' = {}
    /\ loadData
    /\ UNCHANGED <<store, resp, user, offSessions>>

\* the server answers one of the two GETs of loadData
serveData(part) ==
    /\ sessionsData.pc = "loading"
    /\ sessionsData[part] = <<>>
    /\ sessionsData' = [sessionsData EXCEPT ![part] =
                           <<CASE part = "sessions" -> listSessions(user, TRUE)
                               [] part = "collection" -> listCollectionForUser(user)>>]
    /\ UNCHANGED <<store, resp, user, offSessions, activeSessions, collectionGames>>

\* loadData from its await on: setActiveSessions, setCollectionGames
loadDataDone ==
    /\ sessionsData.pc = "loading"
    /\ sessionsData.sessions # <<>> /\ sessionsData.collection # <<>>
    /\ activeSessions' = sessionsData.sessions[1]
    /\ collectionGames' = sessionsData.collection[1]
    /\ sessionsData' = [pc |-> "idle"]
    /\ UNCHANGED <<store, resp, user, offSessions>>

\* PlaySessionsPage.startSession from the card of a game of the collection;
\* loadData on success
clickStartSession(g) ==
    /\ user # NULL
    /\ sessionsData.pc = "idle"
    /\ g \in {row.game_id : row \in collectionGames}
    /\ startSession(user, g)
    /\ IF resp'.status = "OK" THEN loadData ELSE UNCHANGED sessionsData
    /\ UNCHANGED <<user, offSessions, activeSessions, collectionGames>>

\* ActiveSessionCard.handleEndSession -> PlaySessionsPage.endSession from the
\* card of a session listed as active; loadData on success
handleEndSession(sessionId) ==
    /\ user # NULL
    /\ sessionsData.pc = "idle"
    /\ sessionId \in {r.session_id : r \in activeSessions}
    /\ endSession(user, sessionId)
    /\ IF resp'.status = "OK" THEN loadData ELSE UNCHANGED sessionsData
    /\ UNCHANGED <<user, offSessions, activeSessions, collectionGames>>

\* the session requests of the user's other browser sessions and of the
\* other users, to any session id
otherSessions ==
    /\ \E u \in UserIds :
          \/ \E g \in GameIds : startSession(u, g)
          \/ \E id \in 1..MaxSessions : endSession(u, id)
          \/ \E id \in 1..MaxSessions : deleteSession(u, id)
    /\ UNCHANGED client

InitSessions ==
    /\ USER = {[user_id |-> u, username |-> u, email |-> u] : u \in UserIds}
    /\ GAME = {[game_id |-> g, external_api_id |-> "NULL"] : g \in GameIds}
    /\ GAME_GENRE = {} /\ GAME_PLATFORM = {} /\ ACHIEVEMENT = {}
    /\ USER_GAMES = {[user_id |-> 1, game_id |-> g, play_status |-> "playing",
                      rating |-> NULL, personal_notes |-> "NULL"] : g \in GameIds}
    /\ USER_ACHIEVEMENTS = {}
    /\ REVIEW = {} /\ PLAY_SESSION = {} /\ FRIENDS = {}
    /\ nextId = 0 /\ nextSessionId = 0 /\ now = 0
    /\ resp = [op |-> "none", status |-> "OK"]
    /\ user = 1 /\ token = 1 /\ loading = FALSE
    /\ collection = {} /\ loadsPending = 0 /\ loadsInFlight = {}
    /\ editSave = [pc |-> "closed"]
    /\ InitPages

NextSessions ==
    \/ mountPlaySessionsPage
    \/ \E part \in {"sessions", "collection"} : serveData(part)
    \/ loadDataDone
    \/ \E g \in GameIds : clickStartSession(g)
    \/ \E sessionId \in 1..MaxSessions : handleEndSession(sessionId)
    \/ otherSessions
    \/ tick

SpecSessions == InitSessions /\ [][NextSessions]_vars

(***************************************************************************)
(* The history tab of PlaySessionsPage and its SessionHistoryCards.        *)
(***************************************************************************)
\* the tab buttons: setActiveTab(tab); useEffect([activeTab]) calls loadHistory
\* for the history tab; the cards of a tab that is left are unmounted
setActiveTab(tab) ==
    /\ user # NULL
    /\ tab # sessionsTab
    /\ sessionsTab' = tab
    /\ historyLoading' = (historyLoading \/ tab = "history")
    /\ deleting' = {}
    /\ UNCHANGED <<store, resp, user, collectionView, offHub, friendsCount, counts,
                   loading, reloads, api, history>>

\* loadHistory from its await on: setHistory with the answer of GET /sessions/;
\* the cards replace the loading indicator
loadHistoryDone ==
    /\ historyLoading
    /\ history' = listSessions(user, FALSE)
    /\ historyLoading' = FALSE
    /\ UNCHANGED <<store, resp, user, collectionView, offHub, friendsCount, counts,
                   loading, reloads, api, sessionsTab, deleting>>

\* SessionHistoryCard.handleDelete of a card shown, confirmed: setDeleting(true)
\* and PlaySessionsPage.deleteSession, which reloads the history when the
\* delete succeeded and sets the error of the page when it failed; it throws
\* in neither case, so the catch of handleDelete is not entered
handleDelete(sessionId) ==
    /\ user # NULL
    /\ sessionsTab = "history" /\ ~historyLoading
    /\ sessionId \in {r.session_id : r \in history}
    /\ sessionId \notin deleting
    /\ deleteSession(user, sessionId)
    /\ IF resp'.status = "OK"
       THEN historyLoading' = TRUE /\ deleting' = {}
       ELSE historyLoading' = FALSE /\ deleting' = deleting \cup {sessionId}
    /\ UNCHANGED <<user, collectionView, offHub, friendsCount, counts,
                   loading, reloads, api, sessionsTab, history>>

NextHistory ==
    \/ \E tab \in {"active", "start", "history"} : setActiveTab(tab)
    \/ loadHistoryDone
    \/ \E sessionId \in 1..MaxSessions : handleDelete(sessionId)
    \/ otherSessions

SpecHistory == InitSessions /\ [][NextHistory]_vars

(***************************************************************************)
(* Import from the external catalogue: the REST layer (modelled from the   *)
(* specification) and the RAWG branch of GameDetailsModal.handleAdd.       *)
(***************************************************************************)
ExternalIds == {"rawg1", "rawg2"}

\* a fresh game_id (a UUID)
NewGameId == CHOOSE g \in 1..(Cardinality(GAME) + 1) : g \notin GameIdsOf(GAME)

\* POST /games/import-from-rawg/{ext}, the lookup: the game that has the
\* external id is returned, otherwise the import goes on to the insert
importLookup(u, ext) ==
    LET found == {r \in GAME : r.external_api_id = ext} IN
    /\ [by |-> u, ext |-> ext] \notin imports
    /\ IF found # {}
       THEN /\ resp' = [op |-> "findOrCreateGameByExternalId", status |-> "OK",
                        by |-> u, external_api_id |-> ext,
                        game_id |-> (CHOOSE r \in found : TRUE).game_id,
                        how |-> "found"]
            /\ UNCHANGED imports
       ELSE /\ imports' = imports \cup {[by |-> u, ext |-> ext]}
            /\ UNCHANGED resp
    /\ UNCHANGED store

\* POST /games/import-from-rawg/{ext}, the insert: the new game, or the one a
\* concurrent import has inserted since the lookup
importInsert(u, ext) ==
    LET row == [game_id |-> NewGameId, external_api_id |-> ext]
        err == GAME_insert(row) IN
    /\ [by |-> u, ext |-> ext] \in imports
    /\ imports' = imports \ {[by |-> u, ext |-> ext]}
    /\ InsertGame(row)
    /\ resp' = [op |-> "findOrCreateGameByExternalId", status |-> "OK",
                by |-> u, external_api_id |-> ext,
                game_id |-> IF err = "OK" THEN row.game_id
                            ELSE (CHOOSE r \in GAME : r.external_api_id = ext).game_id,
                how |-> IF err = "OK" THEN "created" ELSE "duplicate"]

\* GameDetailsModal.handleAdd on a search result of RAWG, up to the answer to
\* api.post(`/games/import-from-rawg/${rawgId}`)
handleAddRAWG(rawgId, playStatus, rating) ==
    /\ user # NULL
    /\ adding.pc = "idle"
    /\ importLookup(user, rawgId)
    /\ adding' = IF imports' = imports
                 THEN [pc |-> "imported", game_id |-> resp'.game_id,
                       play_status |-> playStatus, rating |-> rating]
                 ELSE [pc |-> "importing", rawgId |-> rawgId,
                       play_status |-> playStatus, rating |-> rating]
    /\ UNCHANGED <<user, collectionView, offImport>>

\* the server finishes the import the client waits for: importedGame
handleAddRAWGImported ==
    /\ adding.pc = "importing"
    /\ importInsert(user, adding.rawgId)
    /\ adding' = [pc |-> "imported", game_id |-> resp'.game_id,
                  play_status |-> adding.play_status, rating |-> adding.rating]
    /\ UNCHANGED <<user, collectionView, offImport>>

\* handleAdd from the import on: onAddToCollection(importedGame.game_id, ...)
\* and onClose
handleAddRAWGAdd ==
    /\ user # NULL
    /\ adding.pc = "imported"
    /\ LoadsOutstanding < MaxLoads
    /\ addToCollection(user, adding.game_id,
                       [play_status |-> adding.play_status, rating |-> adding.rating])
    /\ IF resp'.status = "OK" THEN loadCollection ELSE UNCHANGED loadsPending
    /\ adding' = [pc |-> "idle"]
    /\ UNCHANGED <<user, collection, loadsInFlight, editSave, imports, offImport>>

\* the imports of the other users
otherUserImport ==
    /\ \E u \in UserIds \ {user}, ext \in ExternalIds :
          \/ importLookup(u, ext)
          \/ importInsert(u, ext)
    /\ UNCHANGED <<user, collectionView, offImport, adding>>

InitImport ==
    /\ USER = {[user_id |-> u, username |-> u, email |-> u] : u \in UserIds}
    /\ GAME = {[game_id |-> 1, external_api_id |-> "NULL"]}
    /\ GAME_GENRE = {} /\ GAME_PLATFORM = {} /\ ACHIEVEMENT = {}
    /\ USER_GAMES = {} /\ USER_ACHIEVEMENTS = {}
    /\ REVIEW = {} /\ PLAY_SESSION = {} /\ FRIENDS = {}
    /\ nextId = 0 /\ nextSessionId = 0 /\ now = 0
    /\ resp = [op |-> "none", status |-> "OK"]
    /\ user = 1 /\ token = 1 /\ loading = FALSE
    /\ collection = {} /\ loadsPending = 0 /\ loadsInFlight = {}
    /\ editSave = [pc |-> "closed"]
    /\ InitPages

NextImport ==
    \/ \E rawgId \in ExternalIds, st \in StatusInputs, r \in RatingsAfterClicks(NULL, FALSE) :
          handleAddRAWG(rawgId, st, r)
    \/ handleAddRAWGImported
    \/ handleAddRAWGAdd
    \/ serveCollection
    \/ \E l \in loadsInFlight : setCollection(l)
    \/ otherUserImport

SpecImport == InitImport /\ [][NextImport]_vars

(***************************************************************************)
(* Accounts: the REST layer (modelled from the specification) and the      *)
(* client's AuthProvider and AuthPage.                                     *)
(***************************************************************************)
Usernames == {"ann", "bob"}
Emails == {"ann@x", "bob@x"}
Passwords == {"p", "q"}

\* the stored hash of a password
Hash(password) == <<"hash", password>>

\* a fresh user_id (a UUID)
NewUserId == CHOOSE u \in 1..(Cardinality(USER) + 1) : u \notin UserIdsOf(USER)

\* POST /register/
createUser(username, email, password) ==
    LET row == [user_id |-> NewUserId, username |-> username, email |-> email,
                password_hash |-> Hash(password)]
        err == USER_insert(row) IN
    /\ InsertUser(row)
    /\ resp' = [op |-> "createUser", status |-> err, user_id |-> row.user_id,
                username |-> username, email |-> email]

\* POST /login
findUserByCredentials(username, password) ==
    LET found == {r \in USER : r.username = username /\ r.password_hash = Hash(password)} IN
    /\ resp' = [op |-> "findUserByCredentials",
                status |-> IF found # {} THEN "OK" ELSE "Unauthorized",
                user_id |-> IF found # {} THEN (CHOOSE r \in found : TRUE).user_id ELSE NULL]
    /\ UNCHANGED store

\* AuthProvider.login up to the answer to POST /login: the token is stored
login(username, password) ==
    /\ findUserByCredentials(username, password)
    /\ IF resp'.status = "OK"
       THEN token' = resp'.user_id /\ auth' = [pc |-> "profile"]
       ELSE UNCHANGED token /\ auth' = [pc |-> "idle", error |-> "Login failed"]

\* AuthPage.handleSubmit with isLogin; a failure is shown by setError
handleSubmitLogin(username, password) ==
    /\ user = NULL
    /\ auth.pc = "idle"
    /\ login(username, password)
    /\ UNCHANGED <<user, offAuth>>

\* AuthPage.handleSubmit with !isLogin -> AuthProvider.register up to the
\* answer to POST /register/: login follows when it did not throw
handleSubmitRegister(username, email, password) ==
    /\ user = NULL
    /\ auth.pc = "idle"
    /\ createUser(username, email, password)
    /\ auth' = IF resp'.status = "OK"
               THEN [pc |-> "login", username |-> username, password |-> password]
               ELSE [pc |-> "idle", error |-> resp'.status]
    /\ UNCHANGED <<user, token, offAuth>>

\* AuthProvider.register: await login(username, password)
registerLogin ==
    /\ auth.pc = "login"
    /\ login(auth.username, auth.password)
    /\ UNCHANGED <<user, offAuth>>

\* AuthProvider.login from the token on: GET /users/profile/ and setUser
loginProfile ==
    /\ auth.pc = "profile"
    /\ user' = token
    /\ auth' = [pc |-> "idle", error |-> ""]
    /\ UNCHANGED <<store, resp, token, offAuth>>

\* as logout, were setUser(null) missing
logout_keepsUser ==
    /\ user # NULL
    /\ token' = NULL
    /\ UNCHANGED <<store, resp, user, auth, offAuth>>

\* AuthProvider.logout
logout ==
    /\ user # NULL
    /\ token' = NULL /\ user' = NULL
    /\ UNCHANGED <<store, resp, auth, offAuth>>

\* the registrations of other people
otherUserRegister ==
    /\ \E username \in Usernames, email \in Emails, password \in Passwords :
          createUser(username, email, password)
    /\ UNCHANGED client

InitAuth ==
    /\ USER = {}
    /\ GAME = {} /\ GAME_GENRE = {} /\ GAME_PLATFORM = {} /\ ACHIEVEMENT = {}
    /\ USER_GAMES = {} /\ USER_ACHIEVEMENTS = {}
    /\ REVIEW = {} /\ PLAY_SESSION = {} /\ FRIENDS = {}
    /\ nextId = 0 /\ nextSessionId = 0 /\ now = 0
    /\ resp = [op |-> "none", status |-> "OK"]
    /\ user = NULL /\ token = NULL /\ loading = FALSE
    /\ collection = {} /\ loadsPending = 0 /\ loadsInFlight = {}
    /\ editSave = [pc |-> "closed"]
    /\ InitPages

NextAuth ==
    \/ \E username \in Usernames, password \in Passwords :
          handleSubmitLogin(username, password)
    \/ \E username \in Usernames, email \in Emails, password \in Passwords :
          handleSubmitRegister(username, email, password)
    \/ registerLogin
    \/ loginProfile
    \/ logout
    \/ otherUserRegister

SpecAuth == InitAuth /\ [][NextAuth]_vars

(***************************************************************************)
(* Two tabs of one user at once: each takes one action on the collection   *)
(* (GameDetailsModal.handleAdd or CollectionEditModal.handleSave), and     *)
(* sends friend requests and imports, request by request.                  *)
(***************************************************************************)
\* the entry the user has from the start
Entry0 == [user_id |-> 1, game_id |-> 1, play_status |-> "NOT_STARTED",
           personal_notes |-> "NULL", rating |-> NULL]

\* GameDetailsModal.handleAdd in tab t: one POST
tabAdd(t, g, playStatus, rating) ==
    /\ tabs[t].pc = "idle"
    /\ addToCollection(user, g, [play_status |-> playStatus, rating |-> rating])
    /\ tabs' = [tabs EXCEPT ![t] = [pc |-> "done", kind |-> "add", game_id |-> g,
                                    play_status |-> playStatus, rating |-> rating,
                                    notes |-> "NULL"]]
    /\ UNCHANGED <<user, offTabs, imports>>

\* CollectionEditModal.handleSave in tab t on an entry of the collection:
\* the PUT of the status
tabSaveStatus(t, item, playStatus, rating, notes) ==
    /\ tabs[t].pc = "idle"
    /\ item \in listCollectionForUser(user)
    /\ updateCollectionEntry(user, item.game_id, [play_status |-> playStatus])
    /\ tabs' = [tabs EXCEPT ![t] = [pc |-> "rating", kind |-> "save",
                                    game_id |-> item.game_id, play_status |-> playStatus,
                                    rating |-> rating, notes |-> notes]]
    /\ UNCHANGED <<user, offTabs, imports>>

\* the PUT of the rating, if (rating !== null)
tabSaveRating(t) ==
    /\ tabs[t].pc = "rating"
    /\ IF tabs[t].rating # NULL
       THEN updateCollectionEntry(user, tabs[t].game_id, [rating |-> tabs[t].rating])
       ELSE UNCHANGED <<store, resp>>
    /\ tabs' = [tabs EXCEPT ![t].pc = "notes"]
    /\ UNCHANGED <<user, offTabs, imports>>

\* the PUT of the notes; the modal closes
tabSaveNotes(t) ==
    /\ tabs[t].pc = "notes"
    /\ updateCollectionEntry(user, tabs[t].game_id, [personal_notes |-> tabs[t].notes])
    /\ tabs' = [tabs EXCEPT ![t].pc = "done"]
    /\ UNCHANGED <<user, offTabs, imports>>

\* FriendsPage.sendFriendRequest in a tab
tabSendFriendRequest(userId) ==
    /\ createFriendRequest(user, userId)
    /\ UNCHANGED client

\* the search result both tabs import
SameExternalId == CHOOSE rawgId \in ExternalIds : TRUE

\* the RAWG import of GameDetailsModal.handleAdd in tab t
tabImport(t, rawgId) ==
    /\ importLookup(t, rawgId) \/ importInsert(t, rawgId)
    /\ UNCHANGED <<user, offTabs, tabs>>

InitConcurrent ==
    /\ USER = {[user_id |-> u, username |-> u, email |-> u] : u \in UserIds}
    /\ GAME = {[game_id |-> g, external_api_id |-> "NULL"] : g \in GameIds}
    /\ GAME_GENRE = {} /\ GAME_PLATFORM = {} /\ ACHIEVEMENT = {}
    /\ USER_GAMES = {Entry0} /\ USER_ACHIEVEMENTS = {}
    /\ REVIEW = {} /\ PLAY_SESSION = {} /\ FRIENDS = {}
    /\ nextId = 0 /\ nextSessionId = 0 /\ now = 0
    /\ resp = [op |-> "none", status |-> "OK"]
    /\ user = 1 /\ token = 1 /\ loading = FALSE
    /\ collection = {} /\ loadsPending = 0 /\ loadsInFlight = {}
    /\ editSave = [pc |-> "closed"]
    /\ InitPages

NextConcurrent ==
    \/ \E t \in TabIds, g \in GameIds, st \in StatusInputs,
          r \in RatingsAfterClicks(NULL, FALSE) : tabAdd(t, g, st, r)
    \/ \E t \in TabIds, item \in USER_GAMES :
          \E st \in StatusInputs, r \in RatingsAfterClicks(item.rating, TRUE),
             n \in NoteInputs : tabSaveStatus(t, item, st, r, n)
    \/ \E t \in TabIds : tabSaveRating(t)
    \/ \E t \in TabIds : tabSaveNotes(t)
    \/ \E userId \in UserIds \ {user} : tabSendFriendRequest(userId)
    \/ \E t \in TabIds : tabImport(t, SameExternalId)

SpecConcurrent == InitConcurrent /\ [][NextConcurrent]_vars

(***************************************************************************)
(* Analytics: the three queries of the REST layer (modelled from the       *)
(* specification) and the client's AnalyticsPage.  An average is the pair  *)
(* <<sum, count>> of the ratings it is taken over.                         *)
(***************************************************************************)
RECURSIVE SumRatings(_)
SumRatings(R) ==
    IF R = {} THEN 0
    ELSE LET r == CHOOSE x \in R : TRUE IN r.rating + SumRatings(R \ {r})

\* a / b > c / d for averages <<a, b>> and <<c, d>> with b, d > 0
AvgGreater(x, y) == x[1] * y[2] > y[1] * x[2]

\* ORDER BY: the rows of S as a sequence, the row that comes before all others
\* first; before is the set of the pairs <<x, y>> with x to come before y
RECURSIVE OrderBy(_, _)
OrderBy(S, before) ==
    IF S = {} THEN <<>>
    ELSE LET first == CHOOSE x \in S : \A y \in S \ {x} : <<x, y>> \in before
         IN  <<first>> \o OrderBy(S \ {first}, before)

\* LIMIT
Limit(rows, limit) == SubSeq(rows, 1, IF limit < Len(rows) THEN limit ELSE Len(rows))

\* GROUP BY game_id over REVIEW: one row per reviewed game
ReviewAverages ==
    {[game_id |-> g,
      average_rating |-> <<SumRatings({r \in REVIEW : r.game_id = g}),
                           Cardinality({r \in REVIEW : r.game_id = g})>>]
        : g \in {r.game_id : r \in REVIEW}}

\* the scalar subquery: AVG(rating) over all reviews
OverallAverage == <<SumRatings(REVIEW), Cardinality(REVIEW)>>

\* HAVING: the games whose average exceeds the overall average
AboveAverage == {row \in ReviewAverages : AvgGreater(row.average_rating, OverallAverage)}

\* the rows kept, best average first
TopRatedRows(kept, limit) ==
    Limit(OrderBy(kept,
                  {<<x, y>> \in kept \X kept :
                      \/ AvgGreater(x.average_rating, y.average_rating)
                      \/ /\ ~AvgGreater(y.average_rating, x.average_rating)
                         /\ x.game_id < y.game_id}),
          limit)

\* GET /games/top-rated/?limit=, were the comparison >=
games_top_rated_orEqual(limit) ==
    TopRatedRows({row \in ReviewAverages :
                     ~AvgGreater(OverallAverage, row.average_rating)}, limit)

\* GET /games/top-rated/?limit=
games_top_rated(limit) == TopRatedRows(AboveAverage, limit)

\* the rows of a table for a LEFT JOIN: a row of NULLs when there is none
LeftJoinRows(T, nullRow) == IF T = {} THEN {nullRow} ELSE T

\* GAME LEFT JOIN REVIEW LEFT JOIN USER_GAMES LEFT JOIN PLAY_SESSION, for game g
JoinedRows(g) ==
    {[r |-> r, ug |-> ug, ps |-> ps] :
        r \in LeftJoinRows({x \in REVIEW : x.game_id = g}, [review_id |-> NULL, rating |-> 0]),
        ug \in LeftJoinRows({x \in USER_GAMES : x.game_id = g}, [user_id |-> NULL]),
        ps \in LeftJoinRows({x \in PLAY_SESSION : x.game_id = g}, [session_id |-> NULL])}

RECURSIVE SumJoinedRatings(_)
SumJoinedRatings(J) ==
    IF J = {} THEN 0
    ELSE LET j == CHOOSE x \in J : TRUE IN j.r.rating + SumJoinedRatings(J \ {j})

\* GET /games/statistics/?min_reviews=: GROUP BY game over the join, COUNT of
\* the reviews, COUNT(DISTINCT) of the collectors, COUNT of the sessions, AVG
\* of the ratings
games_statistics(min_reviews) ==
    LET stat(g) ==
            LET J == JoinedRows(g) IN
            [game_id |-> g,
             review_count |-> Cardinality({j \in J : j.r.review_id # NULL}),
             user_count |-> Cardinality({j.ug.user_id : j \in J} \ {NULL}),
             total_sessions |-> Cardinality({j \in J : j.ps.session_id # NULL}),
             average_rating |-> <<SumJoinedRatings({j \in J : j.r.review_id # NULL}),
                                  Cardinality({j \in J : j.r.review_id # NULL})>>]
        kept == {row \in {stat(g) : g \in GameIdsOf(GAME)} : row.review_count >= min_reviews}
    IN  OrderBy(kept, {<<x, y>> \in kept \X kept : x.game_id < y.game_id})

\* SELECT DISTINCT user_id FROM a table, as a list
DistinctUserIds(T) ==
    LET ids == {r.user_id : r \in T} IN OrderBy(ids, {<<x, y>> \in ids \X ids : x < y})

\* UNION: the second list after the first, without the rows that are there already
RECURSIVE Union(_, _)
Union(a, b) ==
    IF b = <<>> THEN a
    ELSE IF \E k \in 1..Len(a) : a[k] = Head(b) THEN Union(a, Tail(b))
    ELSE Union(Append(a, Head(b)), Tail(b))

\* GET /users/active-users/?limit=, were the union UNION ALL
users_active_users_all(limit) ==
    Limit(DistinctUserIds(USER_GAMES) \o DistinctUserIds(REVIEW), limit)

\* GET /users/active-users/?limit=
users_active_users(limit) ==
    Limit(Union(DistinctUserIds(USER_GAMES), DistinctUserIds(REVIEW)), limit)

\* loadAnalytics up to its await: the three GETs are sent
loadAnalytics ==
    analytics' = [pc |-> "loading", loads |-> analytics.loads + 1,
                  topRated |-> <<>>, stats |-> <<>>, users |-> <<>>]

\* the page is opened: useEffect(() => { loadAnalytics() }, [])
mountAnalyticsPage ==
    /\ user # NULL
    /\ analytics.pc = "idle"
    /\ analytics.loads < MaxLoads
    /\ topRatedGames' = <<>> /\ gameStats' = <<>> /\ activeUsers' = <<>>
    /\ loadAnalytics
    /\ UNCHANGED <<store, resp, user, offAnalytics>>

\* the server answers one of the three GETs: limit=10, min_reviews=1, limit=20
serveAnalytics(part) ==
    /\ analytics.pc = "loading"
    /\ analytics[part] = <<>>
    /\ resp' = [op |-> part, status |-> "OK",
                value |-> CASE part = "topRated" -> games_top_rated(10)
                            [] part = "stats" -> games_statistics(1)
                            [] part = "users" -> users_active_users(20)]
    /\ analytics' = [analytics EXCEPT ![part] = <<[status |-> "fulfilled",
                                                   value |-> resp'.value]>>]
    /\ UNCHANGED <<store, user, offAnalytics, topRatedGames, gameStats, activeUsers>>

\* one of the three GETs fails
rejectAnalytics(part) ==
    /\ analytics.pc = "loading"
    /\ analytics[part] = <<>>
    /\ analytics' = [analytics EXCEPT ![part] = <<[status |-> "rejected", value |-> <<>>]>>]
    /\ UNCHANGED <<store, resp, user, offAnalytics, topRatedGames, gameStats, activeUsers>>

\* result.status === 'fulfilled' ? result.value : []
Settled(result) == IF result.status = "fulfilled" THEN result.value ELSE <<>>

\* loadAnalytics from Promise.allSettled on
loadAnalyticsDone ==
    /\ analytics.pc = "loading"
    /\ analytics.topRated # <<>> /\ analytics.stats # <<>> /\ analytics.users # <<>>
    /\ topRatedGames' = Settled(analytics.topRated[1])
    /\ gameStats' = Settled(analytics.stats[1])
    /\ activeUsers' = Settled(analytics.users[1])
    /\ analytics' = [pc |-> "idle", loads |-> analytics.loads]
    /\ UNCHANGED <<store, resp, user, offAnalytics>>

AnalyticsRatings == {1, 4}

\* what the users do meanwhile: they review the games and collect one of them
usersActivity ==
    /\ \E u \in UserIds :
          \/ \E g \in GameIds, r \in AnalyticsRatings :
                createReview(u, g, [rating |-> r, review_text |-> "NULL"])
          \/ addToCollection(u, gameId, [play_status |-> "NOT_STARTED", rating |-> NULL])
    /\ UNCHANGED client

\* the user starts a play session of that game, from another page
playsGame ==
    /\ startSession(user, gameId)
    /\ UNCHANGED client

InitAnalytics ==
    /\ USER = {[user_id |-> u, username |-> u, email |-> u] : u \in UserIds}
    /\ GAME = {[game_id |-> g, external_api_id |-> "NULL"] : g \in GameIds}
    /\ GAME_GENRE = {} /\ GAME_PLATFORM = {} /\ ACHIEVEMENT = {}
    /\ USER_GAMES = {} /\ USER_ACHIEVEMENTS = {}
    /\ REVIEW = {} /\ PLAY_SESSION = {} /\ FRIENDS = {}
    /\ nextId = 0 /\ nextSessionId = 0 /\ now = 0
    /\ resp = [op |-> "none", status |-> "OK"]
    /\ user = 1 /\ token = 1 /\ loading = FALSE
    /\ collection = {} /\ loadsPending = 0 /\ loadsInFlight = {}
    /\ editSave = [pc |-> "closed"]
    /\ InitPages

NextAnalytics ==
    \/ mountAnalyticsPage
    \/ \E part \in {"topRated", "stats", "users"} : serveAnalytics(part)
    \/ \E part \in {"topRated", "stats", "users"} : rejectAnalytics(part)
    \/ loadAnalyticsDone
    \/ usersActivity
    \/ playsGame

SpecAnalytics == InitAnalytics /\ [][NextAnalytics]_vars

(***************************************************************************)
(* The header of GameHub: the friend count, loaded when GameHub mounts and  *)
(* set by the Friends page; the user alone acts on the friendships.         *)
(***************************************************************************)
\* GameHub mounts: useEffect(() => { loadInitialCounts() }, []) up to its
\* first await
mountGameHub ==
    /\ user # NULL
    /\ counts.pc = "idle"
    /\ counts' = [pc |-> "collection"]
    /\ UNCHANGED <<store, resp, user, collectionView, offHub, friendsCount,
                   startView, historyView>>

\* the server answers the GET /collection/ of loadInitialCounts
serveInitialCollection ==
    /\ counts.pc = "collection"
    /\ counts' = [pc |-> "collectionAnswered", data |-> listCollectionForUser(user)]
    /\ UNCHANGED <<store, resp, user, collectionView, offHub, friendsCount,
                   startView, historyView>>

\* loadInitialCounts from its first await on: setCollection, and GET
\* /friends/details/ is sent
loadInitialCountsCollection ==
    /\ counts.pc = "collectionAnswered"
    /\ collection' = counts.data
    /\ counts' = [pc |-> "friends"]
    /\ UNCHANGED <<store, resp, user, loadsPending, loadsInFlight, editSave, offHub,
                   friendsCount,
                   startView, historyView>>

\* the server answers GET /friends/details/
serveInitialCounts ==
    /\ counts.pc = "friends"
    /\ counts' = [pc |-> "answered", count |-> Cardinality(listFriends(user))]
    /\ UNCHANGED <<store, resp, user, collectionView, offHub, friendsCount,
                   startView, historyView>>

\* loadInitialCounts from its second await on: setFriendsCount
loadInitialCountsDone ==
    /\ counts.pc = "answered"
    /\ friendsCount' = counts.count
    /\ counts' = [pc |-> "done"]
    /\ UNCHANGED <<store, resp, user, collectionView, offHub,
                   startView, historyView>>

\* one of the two requests of loadInitialCounts fails: the catch logs it
loadInitialCountsFailed ==
    /\ counts.pc \in {"collection", "friends"}
    /\ counts' = [pc |-> "done"]
    /\ UNCHANGED <<store, resp, user, collectionView, offHub, friendsCount,
                   startView, historyView>>

\* the user opens a profile once the Friends page, if it is shown, has
\* loaded: no answer to the page is lost with it
viewProfile(userId) ==
    /\ allData.pc = "idle" /\ ~friendsLoading
    /\ mountProfilePage(userId)

\* user 2 has asked the user to be friends
InitHeader ==
    /\ USER = {[user_id |-> u, username |-> u, email |-> u] : u \in FriendUserIds}
    /\ GAME = {} /\ GAME_GENRE = {} /\ GAME_PLATFORM = {} /\ ACHIEVEMENT = {}
    /\ USER_GAMES = {} /\ USER_ACHIEVEMENTS = {}
    /\ REVIEW = {} /\ PLAY_SESSION = {}
    /\ FRIENDS = {[friendship_id |-> 1, user_id_initiator |-> 2, user_id_recipient |-> 1,
                   friendship_date |-> 0, friendship_status |-> "PENDING"]}
    /\ nextId = 1 /\ nextSessionId = 0 /\ now = 0
    /\ resp = [op |-> "none", status |-> "OK"]
    /\ user = 1 /\ token = 1 /\ loading = FALSE
    /\ collection = {} /\ loadsPending = 0 /\ loadsInFlight = {}
    /\ editSave = [pc |-> "closed"]
    /\ InitPages

NextHeader ==
    \/ mountGameHub
    \/ serveInitialCollection
    \/ loadInitialCountsCollection
    \/ serveInitialCounts
    \/ loadInitialCountsDone
    \/ loadInitialCountsFailed
    \/ mountFriendsPage
    \/ \E part \in {"friends", "incoming", "outgoing"} : serveAllData(part)
    \/ loadAllDataDone
    \/ \E userId \in FriendUserIds \ {user} : sendFriendRequest(userId)
    \/ loadOutgoingRequestsDone
    \/ \E id \in 1..MaxNewIds : acceptRequest(id)
    \/ \E id \in 1..MaxNewIds : rejectRequest(id)
    \/ \E id \in 1..MaxNewIds : removeFriend(id)
    \/ \E userId \in FriendUserIds \ {user} : viewProfile(userId)
    \/ onClose
    \/ handleAddFriend
    \/ handleRemoveFriend

SpecHeader == InitHeader /\ [][NextHeader]_vars

\* GameHub has mounted with an empty collection in the store: the GET
\* /collection/ of loadInitialCounts is on its way
InitConverge ==
    /\ USER = {[user_id |-> u, username |-> u, email |-> u] : u \in UserIds}
    /\ GAME = {[game_id |-> 1, external_api_id |-> "NULL"]}
    /\ GAME_GENRE = {} /\ GAME_PLATFORM = {} /\ ACHIEVEMENT = {}
    /\ USER_GAMES = {} /\ USER_ACHIEVEMENTS = {}
    /\ REVIEW = {} /\ PLAY_SESSION = {} /\ FRIENDS = {}
    /\ nextId = 0 /\ nextSessionId = 0 /\ now = 0
    /\ resp = [op |-> "none", status |-> "OK"]
    /\ user = 1 /\ token = 1 /\ loading = FALSE
    /\ collection = {} /\ loadsPending = 0 /\ loadsInFlight = {}
    /\ editSave = [pc |-> "closed"]
    /\ InitReviewsView /\ InitFriendsView /\ InitSessionsView /\ InitImportView
    /\ InitAuthView /\ InitTabs /\ InitAnalyticsView
    /\ friendsCount = 0 /\ counts = [pc |-> "collection"]
    /\ reloads = 0 /\ api = NoCall
    /\ sessionsTab = "active" /\ history = {} /\ historyLoading = FALSE /\ deleting = {}

\* the client alone: the loads of the mount and of the tab, and the reloads
\* after its own adds and removals
NextConverge ==
    \/ serveInitialCollection
    \/ loadInitialCountsCollection
    \/ serveInitialCounts
    \/ loadInitialCountsDone
    \/ loadInitialCountsFailed
    \/ \E g \in GameIds, st \in StatusInputs, r \in RatingsAfterClicks(NULL, FALSE) :
          handleAdd(g, st, r)
    \/ \E g \in GameIds : removeFromCollection(g)
    \/ openCollectionTab
    \/ serveCollection
    \/ \E data \in loadsInFlight : setCollection(data)

SpecConverge == InitConverge /\ [][NextConverge]_vars

\* AnalyticsPage: the card of a user in the list of active users is clicked;
\* it dispatches viewProfile with the user_id of the card, whoever it is
clickActiveUser(i) ==
    /\ i \in 1..Len(activeUsers)
    /\ analytics.pc = "idle"
    /\ viewProfile(activeUsers[i])

\* the user has game 1 in the collection, another user has reviewed it
InitSelf ==
    /\ USER = {[user_id |-> u, username |-> u, email |-> u] : u \in UserIds}
    /\ GAME = {[game_id |-> g, external_api_id |-> "NULL"] : g \in GameIds}
    /\ GAME_GENRE = {} /\ GAME_PLATFORM = {} /\ ACHIEVEMENT = {}
    /\ USER_GAMES = {[user_id |-> 1, game_id |-> 1, play_status |-> "NOT_STARTED",
                      rating |-> NULL, personal_notes |-> "NULL"]}
    /\ USER_ACHIEVEMENTS = {}
    /\ REVIEW = {[review_id |-> 1, user_id |-> 2, game_id |-> 1, rating |-> 4,
                  review_text |-> "NULL", review_date |-> 0]}
    /\ PLAY_SESSION = {} /\ FRIENDS = {}
    /\ nextId = 1 /\ nextSessionId = 0 /\ now = 0
    /\ resp = [op |-> "none", status |-> "OK"]
    /\ user = 1 /\ token = 1 /\ loading = FALSE
    /\ collection = {} /\ loadsPending = 0 /\ loadsInFlight = {}
    /\ editSave = [pc |-> "closed"]
    /\ InitPages

\* the user alone: the analytics page, the profiles opened from it, and the
\* friends page
NextSelf ==
    \/ mountAnalyticsPage
    \/ \E part \in {"topRated", "stats", "users"} : serveAnalytics(part)
    \/ \E part \in {"topRated", "stats", "users"} : rejectAnalytics(part)
    \/ loadAnalyticsDone
    \/ \E i \in 1..MaxUsers : clickActiveUser(i)
    \/ onClose
    \/ handleAddFriend
    \/ handleRemoveFriend
    \/ mountFriendsPage
    \/ \E part \in {"friends", "incoming", "outgoing"} : serveAllData(part)
    \/ loadAllDataDone
    \/ \E id \in 1..(MaxNewIds + 1) : acceptRequest(id)
    \/ \E id \in 1..(MaxNewIds + 1) : rejectRequest(id)
    \/ \E id \in 1..(MaxNewIds + 1) : removeFriend(id)

SpecSelf == InitSelf /\ [][NextSelf]_vars

(***************************************************************************)
(* The page from its start: AuthProvider's effect, the login, and          *)
(* api.request with the answers a server can give.                         *)
(***************************************************************************)
\* response.ok: the status is in the range 200-299
Ok(status) == status >= 200 /\ status <= 299

\* the statuses and the bodies of the answers: a body parses as JSON or does
\* not, and its detail is "" when it has none
Statuses == {200, 204, 401, 404, 500}
Bodies == [parses : BOOLEAN, detail : {"", "Not found"}]

\* the value null
Null == [null |-> TRUE]

\* window.location.reload(): the page is built anew, AuthProvider with it
reload ==
    /\ reloads' = reloads + 1
    /\ user' = NULL /\ loading' = TRUE
    /\ auth' = [pc |-> "mount", error |-> ""]

\* api.request up to its await: the one fetch is sent
apiRequest ==
    /\ ~loading
    /\ api.pc = "idle"
    /\ api.calls < MaxCalls
    /\ api' = [pc |-> "fetch", calls |-> api.calls + 1, fetches |-> api.fetches + 1,
               status |-> 0, outcome |-> [kind |-> "none"]]
    /\ UNCHANGED <<store, resp, user, collectionView, offHub, friendsCount, counts,
                   loading, reloads,
                   historyView>>

\* as outcome, were a call answered 500 sent again
apiResponse_retry(status, body) ==
    /\ api.pc = "fetch"
    /\ status = 500 /\ api.fetches = api.calls
    /\ api' = [api EXCEPT !.fetches = api.fetches + 1]
    /\ UNCHANGED <<store, resp, user, collectionView, offHub, friendsCount, counts,
                   loading, reloads,
                   historyView>>

\* api.request from its await on, the answer being status and body
apiResponse(status, body) ==
    /\ api.pc = "fetch"
    /\ status = 401 => reloads < MaxLoads
    /\ api' = [api EXCEPT
                 !.pc = "idle",
                 !.status = status,
                 !.outcome =
                    IF ~Ok(status) /\ status # 204
                    THEN [kind |-> "throw",
                          message |-> IF ~body.parses THEN "Request failed"
                                      ELSE IF body.detail # "" THEN body.detail
                                      ELSE "Request failed with status"]
                    ELSE IF status = 204 THEN [kind |-> "return", value |-> Null]
                    ELSE IF body.parses THEN [kind |-> "return", value |-> body]
                    ELSE [kind |-> "throw", message |-> "SyntaxError"]]
    /\ IF status = 401
       THEN token' = NULL /\ reload
       ELSE UNCHANGED <<token, user, loading, reloads, auth>>
    /\ UNCHANGED <<store, resp, collectionView, reviewsView, friendsView, sessionsView,
                   importView, tabs, analyticsView, friendsCount, counts,
                   historyView>>

\* as mountAuthProvider, were setLoading(false) left to the profile request
mountAuthProvider_noElse ==
    /\ auth.pc = "mount"
    /\ auth' = [pc |-> IF token = NULL THEN "idle" ELSE "startup", error |-> ""]
    /\ UNCHANGED <<store, resp, user, token, offAuth>>

\* AuthProvider's useEffect: without a token the loading ends, with one GET
\* /users/profile/ is sent
mountAuthProvider ==
    /\ auth.pc = "mount"
    /\ auth' = [pc |-> IF token = NULL THEN "idle" ELSE "startup", error |-> ""]
    /\ loading' = (token # NULL)
    /\ UNCHANGED <<store, resp, user, token, collectionView, reviewsView, friendsView,
                   sessionsView, importView, tabs, analyticsView, friendsCount, counts,
                   reloads, api,
                   historyView>>

\* the answer to the GET /users/profile/ of the effect: then(setUser), or
\* catch removes the token; finally setLoading(false); a 401 reloads the page
startupProfile(status) ==
    /\ auth.pc = "startup"
    /\ status = 200 => token \in UserIdsOf(USER)
    /\ status = 401 => reloads < MaxLoads
    /\ token' = IF status = 200 THEN token ELSE NULL
    /\ IF status = 401
       THEN reload
       ELSE /\ user' = IF status = 200 THEN token ELSE NULL
            /\ loading' = FALSE
            /\ auth' = [pc |-> "idle", error |-> ""]
            /\ UNCHANGED reloads
    /\ UNCHANGED <<store, resp, collectionView, reviewsView, friendsView, sessionsView,
                   importView, tabs, analyticsView, friendsCount, counts, api,
                   historyView>>

\* AuthProvider.login when the GET /users/profile/ after the token fails: the
\* error goes to AuthPage.handleSubmit; a 401 removes the token and reloads
loginProfileFailed(status) ==
    /\ auth.pc = "profile"
    /\ status = 401 => reloads < MaxLoads
    /\ IF status = 401
       THEN token' = NULL /\ reload
       ELSE /\ auth' = [pc |-> "idle", error |-> "Request failed"]
            /\ UNCHANGED <<token, user, loading, reloads>>
    /\ UNCHANGED <<store, resp, collectionView, reviewsView, friendsView, sessionsView,
                   importView, tabs, analyticsView, friendsCount, counts, api,
                   historyView>>

\* the page is opened with the token the last visit left, if any: of user 1,
\* or of a user that is gone
InitStartup ==
    /\ USER = {[user_id |-> 1, username |-> "ann", email |-> "ann@x",
                password_hash |-> Hash("p")]}
    /\ GAME = {} /\ GAME_GENRE = {} /\ GAME_PLATFORM = {} /\ ACHIEVEMENT = {}
    /\ USER_GAMES = {} /\ USER_ACHIEVEMENTS = {}
    /\ REVIEW = {} /\ PLAY_SESSION = {} /\ FRIENDS = {}
    /\ nextId = 0 /\ nextSessionId = 0 /\ now = 0
    /\ resp = [op |-> "none", status |-> "OK"]
    /\ user = NULL /\ token \in {NULL, 1, 2} /\ loading = TRUE
    /\ collection = {} /\ loadsPending = 0 /\ loadsInFlight = {}
    /\ editSave = [pc |-> "closed"]
    /\ InitReviewsView /\ InitFriendsView /\ InitSessionsView /\ InitImportView
    /\ auth = [pc |-> "mount", error |-> ""]
    /\ InitTabs /\ InitAnalyticsView /\ InitHubView

NextStartup ==
    \/ mountAuthProvider
    \/ \E status \in {200, 401, 500} : startupProfile(status)
    \/ \E username \in Usernames, password \in Passwords :
          handleSubmitLogin(username, password)
    \/ loginProfile
    \/ \E status \in {401, 500} : loginProfileFailed(status)
    \/ logout
    \/ apiRequest
    \/ \E status \in Statuses, body \in Bodies : apiResponse(status, body)

SpecStartup == InitStartup /\ [][NextStartup]_vars

\* the effect runs once the page is built, and every request is answered
SpecStartupLive ==
    /\ SpecStartup
    /\ WF_vars(mountAuthProvider)
    /\ WF_vars(\E status \in {200, 401, 500} : startupProfile(status))

(***************************************************************************)
(* C1: a step that deletes a user u leaves in USER_GAMES, REVIEW,          *)
(* PLAY_SESSION, USER_ACHIEVEMENTS and FRIENDS exactly the rows that did   *)
(* not reference u (as user, initiator or recipient): every referencing    *)
(* row is gone in the same step and every other row is unchanged.          *)
(***************************************************************************)
UserDeleteCascades ==
    [][\A u \in UserIdsOf(USER) \ UserIdsOf(USER') :
          /\ USER_GAMES' = {r \in USER_GAMES : r.user_id # u}
          /\ REVIEW' = {r \in REVIEW : r.user_id # u}
          /\ PLAY_SESSION' = {r \in PLAY_SESSION : r.user_id # u}
          /\ USER_ACHIEVEMENTS' = {r \in USER_ACHIEVEMENTS : r.user_id # u}
          /\ FRIENDS' = {r \in FRIENDS : r.user_id_initiator # u /\ r.user_id_recipient # u}
          /\ USER' = {r \in USER : r.user_id # u}]_vars

\* a user with a friendship and another dependent row was deleted and a
\* friendship among the others remains
UserDeleteCascadesWitness ==
    /\ resp.op = "DeleteUser"
    /\ resp.cascaded.FRIENDS >= 1
    /\ resp.cascaded.USER_GAMES + resp.cascaded.REVIEW + resp.cascaded.PLAY_SESSION
         + resp.cascaded.USER_ACHIEVEMENTS >= 1
    /\ ChildRows >= 1

(***************************************************************************)
(* C2: a step that deletes a game g leaves in GAME_GENRE, GAME_PLATFORM,   *)
(* ACHIEVEMENT, USER_GAMES, REVIEW and PLAY_SESSION exactly the rows that  *)
(* did not reference g, removes every unlock of an achievement of g, and   *)
(* removes no user.                                                        *)
(***************************************************************************)
GameDeleteCascades ==
    [][\A g \in GameIdsOf(GAME) \ GameIdsOf(GAME') :
          /\ GAME_GENRE' = {r \in GAME_GENRE : r.game_id # g}
          /\ GAME_PLATFORM' = {r \in GAME_PLATFORM : r.game_id # g}
          /\ ACHIEVEMENT' = {r \in ACHIEVEMENT : r.game_id # g}
          /\ USER_GAMES' = {r \in USER_GAMES : r.game_id # g}
          /\ REVIEW' = {r \in REVIEW : r.game_id # g}
          /\ PLAY_SESSION' = {r \in PLAY_SESSION : r.game_id # g}
          /\ USER_ACHIEVEMENTS' =
                {r \in USER_ACHIEVEMENTS :
                    \A a \in ACHIEVEMENT : a.achievement_id = r.achievement_id => a.game_id # g}
          /\ USER' = USER]_vars

\* a game was deleted together with an achievement of it and an unlock of
\* that achievement
GameDeleteCascadesWitness ==
    /\ resp.op = "DeleteGame"
    /\ resp.cascaded.ACHIEVEMENT >= 1
    /\ resp.cascaded.USER_ACHIEVEMENTS >= 1
    /\ USER # {}

(***************************************************************************)
(* C3: in every reachable state every child row references rows that       *)
(* exist: no dangling user_id, game_id, achievement_id, initiator or       *)
(* recipient.                                                              *)
(***************************************************************************)
ReferentialIntegrity ==
    /\ \A r \in GAME_GENRE : r.game_id \in GameIdsOf(GAME)
    /\ \A r \in GAME_PLATFORM : r.game_id \in GameIdsOf(GAME)
    /\ \A r \in ACHIEVEMENT : r.game_id \in GameIdsOf(GAME)
    /\ \A r \in USER_GAMES : r.user_id \in UserIdsOf(USER) /\ r.game_id \in GameIdsOf(GAME)
    /\ \A r \in USER_ACHIEVEMENTS :
          r.user_id \in UserIdsOf(USER) /\ r.achievement_id \in AchievementIdsOf(ACHIEVEMENT)
    /\ \A r \in REVIEW : r.user_id \in UserIdsOf(USER) /\ r.game_id \in GameIdsOf(GAME)
    /\ \A r \in PLAY_SESSION : r.user_id \in UserIdsOf(USER) /\ r.game_id \in GameIdsOf(GAME)
    /\ \A r \in FRIENDS :
          r.user_id_initiator \in UserIdsOf(USER) /\ r.user_id_recipient \in UserIdsOf(USER)

\* a game with play sessions was deleted while rows of other games remain
ReferentialIntegrityWitness ==
    /\ resp.op = "DeleteGame"
    /\ resp.cascaded.PLAY_SESSION >= 1
    /\ PLAY_SESSION # {}

(***************************************************************************)
(* C4: there is at most one USER_GAMES row per (user, game) in every       *)
(* reachable state, and a step of add-to-collection either leaves the      *)
(* table as it was or puts one row in the place of the row its key had:    *)
(* it never leaves two rows with one key.                                  *)
(***************************************************************************)
OneEntryPerUserGame ==
    /\ [](\A r1, r2 \in USER_GAMES :
             r1.user_id = r2.user_id /\ r1.game_id = r2.game_id => r1 = r2)
    /\ [][resp'.op = "addToCollection" =>
             \/ USER_GAMES' = USER_GAMES
             \/ \E r \in USER_GAMES' \ USER_GAMES :
                   /\ USER_GAMES' \ {r} =
                         {q \in USER_GAMES : ~(q.user_id = r.user_id /\ q.game_id = r.game_id)}
                   /\ \A q \in USER_GAMES :
                         q.user_id = r.user_id /\ q.game_id = r.game_id
                            => r.personal_notes = q.personal_notes]_vars

\* an add found the game in the collection and updated the entry, while
\* another user holds the same game
OneEntryPerUserGameWitness ==
    /\ resp.op = "addToCollection"
    /\ resp.status = "OK"
    /\ ~resp.created
    /\ Cardinality(USER_GAMES) = 2
    /\ \E r \in USER_GAMES : r.rating = 5 /\ r.play_status = "COMPLETED"

(***************************************************************************)
(* C5: there is at most one REVIEW row per (user, game) in every reachable *)
(* state; a create for a pair that has a review adds no row and changes    *)
(* none (text, rating and date stay), answering Conflict when its rating   *)
(* is valid; the client sends the POST only while it holds no review of    *)
(* its own, and while it holds one its save is a PUT to that review's id.  *)
(***************************************************************************)
OneReviewPerUserGame ==
    /\ [](\A r1, r2 \in REVIEW :
             r1.user_id = r2.user_id /\ r1.game_id = r2.game_id => r1 = r2)
    /\ [][LET sent == saveReply = "none" /\ saveReply' # "none"
              created == /\ resp'.op = "createReview"
                         /\ resp' # resp \/ REVIEW' # REVIEW \/ sent
          IN  /\ created /\ (\E r \in REVIEW : r.user_id = resp'.user_id /\ r.game_id = gameId)
                    => /\ REVIEW' = REVIEW
                       /\ resp'.status # "OK"
                       /\ resp'.rating \in 1..5 => resp'.status = "Conflict"
              /\ sent /\ resp'.op = "createReview" => myReview = NoReview
              /\ sent /\ myReview # NoReview
                    => resp'.op = "updateReview" /\ resp'.review_id = myReview.review_id]_vars

\* the client held no review and sent a POST, the user had reviewed the game
\* from elsewhere at an earlier time with another text and rating, and
\* another user's review of the game exists
OneReviewPerUserGameWitness ==
    /\ resp.op = "createReview"
    /\ resp.status = "Conflict"
    /\ saveReply = "Conflict"
    /\ myReview = NoReview
    /\ Cardinality(REVIEW) = 2
    /\ \E r \in REVIEW : /\ r.user_id = user
                         /\ r.rating # resp.rating
                         /\ r.review_text = "NULL"
                         /\ r.review_date < now

(***************************************************************************)
(* C6: an insert into REVIEW is rejected by the trigger, and adds no row,  *)
(* exactly when its rating is below 1 or above 5: a create with rating 0   *)
(* or 6 fails and leaves REVIEW as it was, and a create with a rating in   *)
(* 1..5 for a pair without a review adds the row with that rating.         *)
(***************************************************************************)
ReviewInsertRatingChecked ==
    [][LET created == /\ resp'.op = "createReview"
                      /\ \/ resp' # resp
                         \/ REVIEW' # REVIEW
                         \/ saveReply = "none" /\ saveReply' # "none"
           r == resp'.rating
       IN  created =>
              /\ r < 1 \/ r > 5 => resp'.status = "ValidationError" /\ REVIEW' = REVIEW
              /\ resp'.status = "ValidationError" => r < 1 \/ r > 5
              /\ r \in 1..5 /\ ~(\E q \in REVIEW : q.user_id = resp'.user_id /\ q.game_id = gameId)
                    => /\ resp'.status = "OK"
                       /\ \E q \in REVIEW' \ REVIEW :
                             /\ q.rating = r /\ q.user_id = resp'.user_id
                             /\ REVIEW' = REVIEW \cup {q}]_vars

\* a create with rating 6 was rejected while reviews with the ratings 1 and 5
\* are stored
ReviewInsertRatingCheckedWitness ==
    /\ resp.op = "createReview"
    /\ resp.status = "ValidationError"
    /\ resp.rating = 6
    /\ \E r \in REVIEW : r.rating = 1
    /\ \E r \in REVIEW : r.rating = 5

(***************************************************************************)
(* C7: every REVIEW row has a rating within 1..5 in every reachable state, *)
(* after updates as well as after inserts.                                 *)
(***************************************************************************)
ReviewRatingInRange ==
    \A r \in REVIEW : r.rating \in 1..5

(***************************************************************************)
(* C8: every USER_GAMES row has a rating that is NULL or within 1..5 in    *)
(* every reachable state.                                                  *)
(***************************************************************************)
CollectionRatingInRange ==
    \A r \in USER_GAMES : r.rating = NULL \/ r.rating \in 1..5

(***************************************************************************)
(* C9: a friend request from A to B for which no edge A->B exists adds     *)
(* one PENDING row A->B, whether or not an edge B->A exists; a request for *)
(* an ordered pair that has an edge fails with Conflict and leaves FRIENDS *)
(* as it was; there is at most one edge per ordered pair in every          *)
(* reachable state.                                                        *)
(***************************************************************************)
OneEdgePerOrderedPair ==
    /\ [](\A r1, r2 \in FRIENDS :
             /\ r1.user_id_initiator = r2.user_id_initiator
             /\ r1.user_id_recipient = r2.user_id_recipient
             => r1 = r2)
    /\ [][resp'.op = "createFriendRequest" /\ (resp' # resp \/ FRIENDS' # FRIENDS) =>
             IF \E r \in FRIENDS : /\ r.user_id_initiator = resp'.initiator
                                   /\ r.user_id_recipient = resp'.recipient
             THEN resp'.status = "Conflict" /\ FRIENDS' = FRIENDS
             ELSE /\ resp'.status = "OK"
                  /\ \E r \in FRIENDS' \ FRIENDS :
                        /\ r.user_id_initiator = resp'.initiator
                        /\ r.user_id_recipient = resp'.recipient
                        /\ r.friendship_status = "PENDING"
                        /\ FRIENDS' = FRIENDS \cup {r}]_vars

\* the client's request to a user was refused as a duplicate while the edges
\* of both directions between the two users are stored as two rows
OneEdgePerOrderedPairWitness ==
    /\ resp.op = "createFriendRequest"
    /\ resp.status = "Conflict"
    /\ resp.initiator = user
    /\ \E r1, r2 \in FRIENDS :
          /\ r1.user_id_initiator = user /\ r1.user_id_recipient = resp.recipient
          /\ r2.user_id_initiator = resp.recipient /\ r2.user_id_recipient = user
          /\ r1.friendship_id # r2.friendship_id

(***************************************************************************)
(* C10: an edge that is ACCEPTED stays ACCEPTED for as long as it exists;  *)
(* an edge goes from PENDING to ACCEPTED only in a step that answers OK to *)
(* an accept of that edge by its recipient; an accept of an edge that does *)
(* not exist, or by a caller other than its recipient, fails and leaves    *)
(* FRIENDS as it was; the accepts the client sends are for requests it     *)
(* holds as incoming.                                                      *)
(***************************************************************************)
AcceptOnlyByRecipient ==
    [][/\ \A r \in FRIENDS : \A q \in FRIENDS' :
             q.friendship_id = r.friendship_id =>
                /\ r.friendship_status = "ACCEPTED" => q.friendship_status = "ACCEPTED"
                /\ r.friendship_status = "PENDING" /\ q.friendship_status = "ACCEPTED"
                      => /\ resp'.op = "acceptFriendRequest"
                         /\ resp'.status = "OK"
                         /\ resp'.friendship_id = r.friendship_id
                         /\ resp'.caller = r.user_id_recipient
       /\ resp'.op = "acceptFriendRequest" /\ (resp' # resp \/ FRIENDS' # FRIENDS) =>
             /\ ~(\E r \in FRIENDS : /\ r.friendship_id = resp'.friendship_id
                                     /\ r.user_id_recipient = resp'.caller)
                   => resp'.status # "OK" /\ FRIENDS' = FRIENDS
             /\ resp'.caller = user
                   => resp'.friendship_id \in {r.friendship_id : r \in incomingRequests}]_vars

\* the initiator's accept of a pending edge was refused, and an edge the
\* logged-in user received is accepted
AcceptOnlyByRecipientWitness ==
    /\ resp.op = "acceptFriendRequest"
    /\ resp.status = "Forbidden"
    /\ \E r \in FRIENDS : /\ r.friendship_id = resp.friendship_id
                          /\ r.user_id_initiator = resp.caller
                          /\ r.friendship_status = "PENDING"
    /\ \E r \in FRIENDS : r.user_id_recipient = user /\ r.friendship_status = "ACCEPTED"

(***************************************************************************)
(* C11: a reject, cancel or remove by one of the two users of an edge is   *)
(* answered OK whether the edge is PENDING or ACCEPTED and deletes exactly *)
(* that edge: afterwards it is in nobody's friends, incoming or outgoing   *)
(* list, every other edge is as it was, and an insert of the same ordered  *)
(* pair is accepted; a request that is refused changes nothing.            *)
(***************************************************************************)
RemoveDeletesEdge ==
    [][resp'.op = "rejectOrRemoveFriendship" /\ (resp' # resp \/ FRIENDS' # FRIENDS) =>
          LET addressed == {r \in FRIENDS : r.friendship_id = resp'.friendship_id}
              own == {r \in addressed :
                         resp'.caller \in {r.user_id_initiator, r.user_id_recipient}}
          IN  /\ own # {} => resp'.status = "OK"
              /\ resp'.status = "OK" =>
                    \E r \in own :
                       /\ r.friendship_status = resp'.was
                       /\ FRIENDS' = FRIENDS \ {r}
                       /\ \A u \in FriendUserIds :
                             r \notin listFriends(u)' \cup listIncomingRequests(u)'
                                         \cup listOutgoingRequests(u)'
                       /\ FRIENDS_insert([friendship_id |-> nextId + 1,
                                          user_id_initiator |-> r.user_id_initiator,
                                          user_id_recipient |-> r.user_id_recipient])' = "OK"
              /\ resp'.status # "OK" => FRIENDS' = FRIENDS]_vars

\* the logged-in user removed a friend from the friend's profile, which now
\* shows no friendship, while another edge is still stored
RemoveDeletesEdgeWitness ==
    /\ resp.op = "rejectOrRemoveFriendship"
    /\ resp.status = "OK"
    /\ resp.caller = user
    /\ resp.was = "ACCEPTED"
    /\ friendshipStatus # NoStatus
    /\ friendshipStatus.status = "NONE"
    /\ FRIENDS # {}

(***************************************************************************)
(* C12: a start for an existing user and game is never refused, whatever   *)
(* sessions are open: it adds exactly one PlaySession, with a new id and   *)
(* end_time null, and leaves every other session as it was.                *)
(***************************************************************************)
StartAlwaysCreates ==
    [][resp'.op = "startSession" /\ (resp' # resp \/ PLAY_SESSION' # PLAY_SESSION) =>
          /\ resp'.status = "OK"
          /\ \E r \in PLAY_SESSION' :
                /\ r.session_id = resp'.session_id
                /\ r.user_id = resp'.user_id /\ r.game_id = resp'.game_id
                /\ r.end_time = NULL
                /\ r.session_id \notin {q.session_id : q \in PLAY_SESSION}
                /\ PLAY_SESSION' = PLAY_SESSION \cup {r}]_vars

\* the client started a session for a game it lists an open session of, and the
\* user now has two open sessions for that game
StartAlwaysCreatesWitness ==
    /\ resp.op = "startSession" /\ resp.status = "OK" /\ resp.user_id = user
    /\ sessionsData.pc = "loading"
    /\ \E r \in activeSessions : r.game_id = resp.game_id /\ r \in PLAY_SESSION
    /\ Cardinality({r \in PLAY_SESSION : /\ r.user_id = user
                                        /\ r.game_id = resp.game_id
                                        /\ r.end_time = NULL}) = 2

(***************************************************************************)
(* C13: an end is answered OK exactly when the addressed session belongs   *)
(* to the caller and is open, and then sets end_time on that session only; *)
(* otherwise it is answered NotFound and no session changes.  No step      *)
(* reopens a closed session or changes an end_time that is set.            *)
(***************************************************************************)
EndOnlyOwnOpen ==
    [][/\ resp'.op = "endSession" /\ (resp' # resp \/ PLAY_SESSION' # PLAY_SESSION) =>
             LET open == {r \in PLAY_SESSION : /\ r.session_id = resp'.session_id
                                               /\ r.user_id = resp'.user_id
                                               /\ r.end_time = NULL}
             IN  IF open # {}
                 THEN /\ resp'.status = "OK"
                      /\ \E r \in open :
                            PLAY_SESSION' = (PLAY_SESSION \ {r})
                                               \cup {[r EXCEPT !.end_time = now]}
                 ELSE /\ resp'.status = "NotFound"
                      /\ PLAY_SESSION' = PLAY_SESSION
       /\ \A r \in PLAY_SESSION :
             r.end_time # NULL =>
                \A q \in PLAY_SESSION' : q.session_id = r.session_id => q = r]_vars

\* the client ended a session it lists as active that was closed earlier from
\* elsewhere: NotFound, the earlier end_time stands, another session is open
EndOnlyOwnOpenWitness ==
    /\ resp.op = "endSession" /\ resp.status = "NotFound" /\ resp.user_id = user
    /\ resp.session_id \in {r.session_id : r \in activeSessions}
    /\ \E r \in PLAY_SESSION : /\ r.session_id = resp.session_id
                               /\ r.user_id = user
                               /\ r.end_time # NULL /\ r.end_time < now
    /\ \E r \in PLAY_SESSION : r.session_id # resp.session_id /\ r.end_time = NULL

(***************************************************************************)
(* C14: no two Game rows have the same non-null external id, and every     *)
(* answer to an import is a Game row that has the external id asked for:   *)
(* the row that had it before the answer, unchanged, when there was one.   *)
(***************************************************************************)
ImportIdempotent ==
    /\ [](\A r, q \in GAME :
             r.external_api_id # "NULL" /\ r.external_api_id = q.external_api_id => r = q)
    /\ [][resp'.op = "findOrCreateGameByExternalId"
             /\ (resp' # resp \/ GAME' # GAME
                    \/ Cardinality(imports') < Cardinality(imports)) =>
                /\ resp'.status = "OK"
                /\ \E r \in GAME' : /\ r.external_api_id = resp'.external_api_id
                                    /\ r.game_id = resp'.game_id
                /\ \A r \in GAME : r.external_api_id = resp'.external_api_id =>
                                      r.game_id = resp'.game_id /\ GAME' = GAME]_vars

\* the client's import found nothing at its lookup, another user's import of
\* the same external id inserted first, and the client was answered with that
\* one row
ImportIdempotentWitness ==
    /\ resp.op = "findOrCreateGameByExternalId" /\ resp.by = user
    /\ resp.how = "duplicate"
    /\ adding.pc = "imported"
    /\ Cardinality({r \in GAME : r.external_api_id = resp.external_api_id}) = 1
    /\ adding.game_id \in {r.game_id : r \in GAME}

SaveAppliesAllChanges ==
    [][/\ editSave.pc = "notes" /\ editSave'.pc = "closed" =>
             \A r \in USER_GAMES' :
                r.user_id = user /\ r.game_id = editSave.game_id =>
                   r.rating = editSave.rating /\ r.personal_notes = editSave.notes
       /\ editSave.pc = "open" /\ editSave'.pc = "rating" =>
             \A r \in USER_GAMES', q \in USER_GAMES :
                /\ r.user_id = user /\ r.game_id = editSave.game_id
                /\ q.user_id = user /\ q.game_id = editSave.game_id
                => \/ r = q
                   \/ r.rating = editSave'.rating /\ r.personal_notes = editSave'.notes]_vars

(***************************************************************************)
(* C17: whatever two tabs of a user do at once, there is one collection    *)
(* entry per (user, game), one game per external id and one edge per       *)
(* ordered pair; and once both tabs have finished their action on the same *)
(* entry, the entry is what the two actions give when one is applied after *)
(* the other, in one of the two orders.                                    *)
(***************************************************************************)
ConcurrentSessionsSerialize ==
    LET Apply(R, a) ==
            IF a.kind = "add"
            THEN IF R = {}
                 THEN {[user_id |-> user, game_id |-> a.game_id,
                        play_status |-> a.play_status, personal_notes |-> "NULL",
                        rating |-> a.rating]}
                 ELSE {[r EXCEPT !.play_status = a.play_status, !.rating = a.rating]
                          : r \in R}
            ELSE {[r EXCEPT !.play_status = a.play_status,
                            !.rating = IF a.rating = NULL THEN r.rating ELSE a.rating,
                            !.personal_notes = a.notes] : r \in R}
        Entry(T, g) == {r \in T : r.user_id = user /\ r.game_id = g}
    IN  /\ \A r, q \in USER_GAMES : r.user_id = q.user_id /\ r.game_id = q.game_id => r = q
        /\ \A r, q \in GAME :
              r.external_api_id # "NULL" /\ r.external_api_id = q.external_api_id => r = q
        /\ \A r, q \in FRIENDS :
              /\ r.user_id_initiator = q.user_id_initiator
              /\ r.user_id_recipient = q.user_id_recipient
              => r = q
        /\ tabs["A"].pc = "done" /\ tabs["B"].pc = "done"
              /\ tabs["A"].game_id = tabs["B"].game_id
           => LET g == tabs["A"].game_id IN
              Entry(USER_GAMES, g) \in
                 {Apply(Apply(Entry({Entry0}, g), tabs["A"]), tabs["B"]),
                  Apply(Apply(Entry({Entry0}, g), tabs["B"]), tabs["A"])}

(***************************************************************************)
(* C18: every answer to top-rated lists exactly the games whose average    *)
(* review rating is strictly greater than the average over all reviews,    *)
(* each once: no game whose average is equal or below, no game without     *)
(* reviews, and no game at all when all reviewed games have one average;   *)
(* and the page shows the answer it got.                                   *)
(***************************************************************************)
TopRatedAboveAverage ==
    [][/\ resp'.op = "topRated" /\ analytics' # analytics /\ analytics'.pc = "loading" =>
             LET listed == {resp'.value[k].game_id : k \in 1..Len(resp'.value)}
                 of(g) == {r \in REVIEW : r.game_id = g}
             IN  /\ Cardinality(listed) = Len(resp'.value)
                 /\ \A g \in GameIds :
                       g \in listed <=>
                          /\ of(g) # {}
                          /\ SumRatings(of(g)) * Cardinality(REVIEW)
                                > SumRatings(REVIEW) * Cardinality(of(g))
                 /\ (\A g, h \in GameIds :
                        of(g) # {} /\ of(h) # {} =>
                           SumRatings(of(g)) * Cardinality(of(h))
                              = SumRatings(of(h)) * Cardinality(of(g)))
                    => resp'.value = <<>>
       /\ analytics.pc = "loading" /\ analytics'.pc = "idle"
             /\ analytics.topRated[1].status = "fulfilled"
          => topRatedGames' = analytics.topRated[1].value]_vars

\* two games have reviews, top-rated was answered with the one of them whose
\* average is above the overall average, and the page shows it
TopRatedAboveAverageWitness ==
    /\ Cardinality({r.game_id : r \in REVIEW}) = 2
    /\ resp.op = "topRated" /\ Len(resp.value) = 1
    /\ analytics.pc = "idle" /\ topRatedGames = resp.value
    /\ AvgGreater(topRatedGames[1].average_rating, OverallAverage)

(***************************************************************************)
(* C19: every answer to active-users lists exactly the users that have a   *)
(* collection entry or a review, each once: a user with both is listed     *)
(* once, a user with neither is not listed; and the page shows the answer  *)
(* it got.                                                                 *)
(***************************************************************************)
ActiveUsersUnion ==
    [][/\ resp'.op = "users" /\ analytics' # analytics /\ analytics'.pc = "loading" =>
             /\ \A k, m \in 1..Len(resp'.value) : resp'.value[k] = resp'.value[m] => k = m
             /\ {resp'.value[k] : k \in 1..Len(resp'.value)}
                   = {u \in UserIdsOf(USER) : \/ \E r \in USER_GAMES : r.user_id = u
                                              \/ \E r \in REVIEW : r.user_id = u}
       /\ analytics.pc = "loading" /\ analytics'.pc = "idle"
             /\ analytics.users[1].status = "fulfilled"
          => activeUsers' = analytics.users[1].value]_vars

\* of the two users, one has a collection entry and a review and the other
\* has neither: active-users was answered with the first alone, and the page
\* shows it
ActiveUsersUnionWitness ==
    /\ resp.op = "users" /\ Len(resp.value) = 1
    /\ \E r \in USER_GAMES : r.user_id = resp.value[1]
    /\ \E r \in REVIEW : r.user_id = resp.value[1]
    /\ Cardinality(USER) = 2
    /\ analytics.pc = "idle" /\ activeUsers = resp.value

SessionEndsAfterStart ==
    /\ [](\A r \in PLAY_SESSION : r.end_time # NULL => r.end_time >= r.start_time)
    /\ [][resp'.op = "endSession" /\ resp'.status = "OK" /\ PLAY_SESSION' # PLAY_SESSION =>
             \E r \in PLAY_SESSION :
                /\ r.session_id = resp'.session_id /\ r.end_time = NULL
                /\ PLAY_SESSION' = (PLAY_SESSION \ {r}) \cup {[r EXCEPT !.end_time = now]}]_vars

\* the user ended, from the card of the page, a session started at an earlier
\* time of the clock, and a session started and ended at the same time exists
SessionEndsAfterStartWitness ==
    /\ resp.op = "endSession" /\ resp.status = "OK" /\ resp.user_id = user
    /\ sessionsData.pc = "loading"
    /\ \E r \in PLAY_SESSION : /\ r.session_id = resp.session_id
                               /\ r.end_time # NULL /\ r.end_time > r.start_time
    /\ \E r \in PLAY_SESSION : r.end_time # NULL /\ r.end_time = r.start_time

(***************************************************************************)
(* C22: with the user alone acting on the friendships, whenever the main    *)
(* view is shown and nothing the client sent is outstanding (the initial    *)
(* counts are loaded, no load of the Friends page is in progress), the      *)
(* count of the header is the number of ACCEPTED friendships of the user.   *)
(***************************************************************************)
HeaderCountDerived ==
    /\ friendshipStatus = NoStatus
    /\ counts.pc = "done"
    /\ allData.pc = "idle" /\ ~friendsLoading
    => friendsCount = Cardinality(listFriends(user))

(***************************************************************************)
(* C23: every request to create or to update a review that WriteReview      *)
(* sends carries a rating in 1..5.                                          *)
(***************************************************************************)
SentRatingInRange ==
    [][saveReply = "none" /\ saveReply' # "none" =>
          /\ resp'.op \in {"createReview", "updateReview"}
          /\ resp'.rating \in 1..5]_vars

UserOnlyWithToken ==
    /\ [](user # NULL => token # NULL)
    /\ [][/\ user # NULL /\ token' = NULL => user' = NULL
          /\ resp'.op = "findUserByCredentials" /\ resp' # resp
                /\ resp'.status # "OK" => user' = NULL /\ token' = token
          /\ reloads' # reloads => user' = NULL /\ token' = NULL]_vars

\* a user whose page a 401 reloaded logged in again and then logged out
UserOnlyWithTokenWitness ==
    /\ reloads = 1 /\ api.status = 401
    /\ resp.op = "findUserByCredentials" /\ resp.status = "OK"
    /\ auth.pc = "idle" /\ ~loading
    /\ user = NULL /\ token = NULL

(***************************************************************************)
(* C26: the loading screen of the start ends: without a token, with a      *)
(* token whose profile loads, and with a token whose profile request       *)
(* fails, which removes the token and leaves the login page; and it is     *)
(* never shown again short of a reload of the page.                        *)
(***************************************************************************)
LoadingEnds ==
    /\ [](loading => <>(~loading))
    /\ [][~loading /\ loading' => reloads' = reloads + 1]_vars
    /\ [][loading /\ ~loading' =>
             \/ token = NULL /\ user' = NULL
             \/ token # NULL /\ user' = token /\ token' = token
             \/ token # NULL /\ user' = NULL /\ token' = NULL]_vars

\* the profile request of the start failed with the token of a user that is
\* gone: the token is removed and the login page is shown
LoadingEndsWitness ==
    /\ ~loading /\ auth.pc = "idle"
    /\ user = NULL /\ token = NULL
    /\ reloads = 0 /\ api.calls = 0 /\ resp.op = "none"
    /\ 2 \notin UserIdsOf(USER)

(***************************************************************************)
(* C27: when the delete of a play session from the history fails, the card *)
(* of the session is not in the deleting state afterwards, so that its     *)
(* delete button is enabled again.                                         *)
(***************************************************************************)
FailedDeleteReleasesCard ==
    [][/\ resp'.op = "deleteSession" /\ resp'.user_id = user
       /\ resp'.status # "OK"
       /\ (resp' # resp \/ deleting' # deleting)
       => resp'.session_id \notin deleting']_vars

(***************************************************************************)
(* C28: when a Save of the CollectionEditModal has gone through, the       *)
(* stored entry has the play status, the rating and the notes the modal    *)
(* held when Save was clicked; with the rating cleared in the modal, the   *)
(* stored rating is absent.                                                *)
(***************************************************************************)
SavedEntryEqualsModal ==
    [][editSave.pc = "notes" /\ editSave'.pc = "closed" =>
          \A r \in USER_GAMES' :
             r.user_id = user /\ r.game_id = editSave.game_id =>
                /\ r.play_status = editSave.playStatus
                /\ r.rating = editSave.rating
                /\ r.personal_notes = editSave.notes]_vars

(***************************************************************************)
(* C29: once every request of the client has completed (the load of the    *)
(* mount, the loads of the collection tab and the reloads after add and    *)
(* remove), the collection shown is the user's collection in the store, in *)
(* whatever order the answers arrived.                                     *)
(***************************************************************************)
CollectionConverges ==
    /\ loadsPending = 0 /\ loadsInFlight = {}
    /\ counts.pc = "done"
    => collection = listCollectionForUser(user)

(***************************************************************************)
(* C30: no friendship connects a user to themself: every row of FRIENDS    *)
(* has an initiator different from its recipient.                          *)
(***************************************************************************)
NoSelfFriendship ==
    \A r \in FRIENDS : r.user_id_initiator # r.user_id_recipient

====
